---- MODULE Spec2Model ----
(***************************************************************************)
(* A model of github.com/Despire/htmlinspect: the inspect package          *)
(* (Combine, Page / traversePage / extractVersion, InvalidLinks) and the   *)
(* HTTP handler of cmd (parseHtml, consumeInternalLinks).                  *)
(* Go strings are TLA+ strings; TLC evaluates Len, SubSeq and \o on them.  *)
(***************************************************************************)
EXTENDS Integers, Sequences, FiniteSets, TLC

VARIABLES
    \* Combine(base, relative) and its result
    base, relative, have, combineAt,
    \* InvalidLinks: the receiver's Links, the argument, the locals (out, ch,
    \* wg), the goroutines (main, one worker per key, the closer), the result
    Links, baseURL, out, ch, wg, mainAt, rangeLinks, workers, closerAt, ret,
    \* history: what each worker probed and what it did with the body of the
    \* response, and where each entry of out came from
    probed, outSrc,
    \* Page: the parsed tree, the calls of traversePage in progress, the
    \* PageContents being filled, the error being returned, Page's result
    tree, stack, pc, err, page,
    \* extractVersion on a doctype node alone
    doctype, version, versionAt,
    \* a caller of Page: the calls it has made and what the first returned
    runs,
    \* parseHtml: the request, the handler's position and locals, the
    \* responses written
    handler

combineVars == <<base, relative, have, combineAt>>
linkVars == <<Links, baseURL, out, ch, wg, mainAt, rangeLinks, workers,
              closerAt, ret, probed, outSrc>>
pageVars == <<tree, stack, pc, err, page>>
versionVars == <<doctype, version, versionAt>>
vars == <<combineVars, linkVars, pageVars, versionVars, runs, handler>>

----------------------------------------------------------------------------
(* Bounds of the model.                                                    *)

\* longest generated argument of Combine
MaxLen == 3

\* most hrefs in the link map handed to InvalidLinks
MaxLinks == 3

\* most hrefs in the link map when termination is checked
MaxFairLinks == 2

\* most nodes of a tree below the document node and its doctype
MaxNodes == 4

\* most attributes of a generated doctype node
MaxAttrs == 2

\* most elements of a tree of headings, of links or of forms
MaxElems == 3

\* most nodes of a tree Page is called on twice
MaxRunNodes == 2

----------------------------------------------------------------------------
(* strings                                                                 *)

\* the i-th byte of s as a one-character string
CharAt(s, i) == SubSeq(s, i, i)

\* strings.HasPrefix
HasPrefix(s, prefix) ==
    /\ Len(s) >= Len(prefix)
    /\ SubSeq(s, 1, Len(prefix)) = prefix

\* strings.HasSuffix
HasSuffix(s, suffix) ==
    /\ Len(s) >= Len(suffix)
    /\ SubSeq(s, Len(s) - Len(suffix) + 1, Len(s)) = suffix

\* unicode.ToLower on the ASCII letters
LowerChar(c) ==
    CASE c = "A" -> "a" [] c = "B" -> "b" [] c = "C" -> "c" [] c = "D" -> "d"
      [] c = "E" -> "e" [] c = "F" -> "f" [] c = "G" -> "g" [] c = "H" -> "h"
      [] c = "I" -> "i" [] c = "J" -> "j" [] c = "K" -> "k" [] c = "L" -> "l"
      [] c = "M" -> "m" [] c = "N" -> "n" [] c = "O" -> "o" [] c = "P" -> "p"
      [] c = "Q" -> "q" [] c = "R" -> "r" [] c = "S" -> "s" [] c = "T" -> "t"
      [] c = "U" -> "u" [] c = "V" -> "v" [] c = "W" -> "w" [] c = "X" -> "x"
      [] c = "Y" -> "y" [] c = "Z" -> "z" [] OTHER -> c

\* strings.ToLower
RECURSIVE ToLower(_)
ToLower(s) ==
    IF Len(s) = 0 THEN ""
    ELSE LowerChar(CharAt(s, 1)) \o ToLower(SubSeq(s, 2, Len(s)))

\* the value of a local variable: S is the set of its one value
The(S) == CHOOSE x \in S : TRUE

\* the least element of a set of positions: 0 when it is empty
First(hits) == IF hits = {} THEN 0 ELSE CHOOSE i \in hits : \A k \in hits : i <= k

\* strings.Index for a one-character separator: 0 when absent
IndexOf(s, c) ==
    The({First(hits) : hits \in {{i \in 1..Len(s) : CharAt(s, i) = c}}})

Letters == {"a", "b", "c", "d", "e", "f", "g", "h", "i", "j", "k", "l", "m",
            "n", "o", "p", "q", "r", "s", "t", "u", "v", "w", "x", "y", "z"}
Digits == {"0", "1", "2", "3", "4", "5", "6", "7", "8", "9"}
HexDigits == Digits \cup {"a", "b", "c", "d", "e", "f"}

----------------------------------------------------------------------------
(* net/url, as far as the hrefs and base URLs of the model need it:        *)
(* fragment, scheme, authority, path, percent-escapes.                     *)

\* the first byte of s that cannot be part of a scheme: 0 when there is none
schemeStop(s) ==
    The({First(stops) :
            stops \in {{i \in 1..Len(s) :
                           ~(\/ LowerChar(CharAt(s, i)) \in Letters
                             \/ (i > 1 /\ CharAt(s, i) \in Digits \cup {"+", "-", "."}))}}})

\* the length of the scheme that ends before byte i0 (0: none, -1: missing)
schemeLen(s, i0) ==
    IF i0 = 0 THEN 0
    ELSE IF CharAt(s, i0) = ":" THEN (IF i0 = 1 THEN -1 ELSE i0 - 1)
    ELSE 0

\* url.getScheme: the length of the scheme (0: none, -1: missing scheme)
getScheme(s) == schemeLen(s, schemeStop(s))

\* url.unescape's check: a "%" not followed by two hex digits
InvalidEscape(s) ==
    \E i \in 1..Len(s) :
        /\ CharAt(s, i) = "%"
        /\ \/ i + 2 > Len(s)
           \/ LowerChar(CharAt(s, i + 1)) \notin HexDigits
           \/ LowerChar(CharAt(s, i + 2)) \notin HexDigits

\* the result of url.Parse: [err, Scheme, Host, Path, Fragment]; err = "" on success
newURL(rawURL, n, scheme, host, path, frag) ==
    IF n = -1 \/ InvalidEscape(host) \/ InvalidEscape(path) \/ InvalidEscape(frag)
    THEN [err |-> "parse \"" \o rawURL \o "\": "
                  \o (IF n = -1 THEN "missing protocol scheme" ELSE "invalid URL escape"),
          Scheme |-> "", Host |-> "", Path |-> "", Fragment |-> ""]
    ELSE [err |-> "", Scheme |-> scheme, Host |-> host, Path |-> path, Fragment |-> frag]

\* the authority ends at the first "/" (byte slash of authority; 0: no path)
splitAuthority(rawURL, n, scheme, authority, slash, frag) ==
    IF slash = 0
    THEN newURL(rawURL, n, scheme, authority, "", frag)
    ELSE The({newURL(rawURL, n, scheme, host, path, frag) :
                 host \in {SubSeq(authority, 1, slash - 1)},
                 path \in {SubSeq(authority, slash, Len(authority))}})

\* url.parse after the scheme: "//" starts an authority, anything else is the path
parseRest(rawURL, n, scheme, rest, frag) ==
    IF HasPrefix(rest, "//")
    THEN The({splitAuthority(rawURL, n, scheme, authority, slash, frag) :
                 authority \in {SubSeq(rest, 3, Len(rest))},
                 slash \in {IndexOf(SubSeq(rest, 3, Len(rest)), "/")}})
    ELSE newURL(rawURL, n, scheme, "", rest, frag)

\* url.parse: the scheme, lower-cased, then the rest
parseScheme(rawURL, u, n, frag) ==
    IF n > 0
    THEN The({parseRest(rawURL, n, scheme, rest, frag) :
                 scheme \in {ToLower(SubSeq(u, 1, n))},
                 rest \in {SubSeq(u, n + 2, Len(u))}})
    ELSE parseRest(rawURL, n, "", u, frag)

\* url.Parse: the fragment is cut at the first "#" (byte hash; 0: none)
cutFragment(rawURL, hash) ==
    IF hash = 0
    THEN The({parseScheme(rawURL, rawURL, n, "") : n \in {getScheme(rawURL)}})
    ELSE The({parseScheme(rawURL, u, n, frag) :
                 u \in {SubSeq(rawURL, 1, hash - 1)},
                 n \in {getScheme(SubSeq(rawURL, 1, hash - 1))},
                 frag \in {SubSeq(rawURL, hash + 1, Len(rawURL))}})

\* url.Parse
url_Parse(rawURL) ==
    The({cutFragment(raw, hash) : raw \in {rawURL}, hash \in {IndexOf(rawURL, "#")}})

\* (*URL).Hostname: the host without its port
Hostname(u) ==
    LET colon == IndexOf(u.Host, ":")
    IN  IF colon = 0 THEN u.Host ELSE SubSeq(u.Host, 1, colon - 1)

\* (*URL).String: the URL reassembled
String(u) ==
    (IF u.Scheme # "" THEN u.Scheme \o ":" ELSE "")
    \o (IF u.Host # "" \/ (u.Scheme # "" /\ u.Path # "" /\ HasPrefix(u.Path, "/"))
        THEN "//" \o u.Host ELSE "")
    \o (IF u.Path # "" /\ ~HasPrefix(u.Path, "/") /\ u.Host # "" THEN "/" ELSE "")
    \o u.Path
    \o (IF u.Fragment # "" THEN "#" \o u.Fragment ELSE "")

----------------------------------------------------------------------------
(* Combine                                                                 *)

\* a slip: the trailing slash of base is kept
Combine_NoTrim(b, r) == b \o r

Combine(b, r) ==
    IF HasPrefix(r, "/") /\ HasSuffix(b, "/")
    THEN SubSeq(b, 1, Len(b) - 1) \o r
    ELSE b \o r

\* characters the generated arguments are made of
CombineAlphabet == {"/", "a"}

RECURSIVE StrUpTo(_)
StrUpTo(n) ==
    IF n = 0 THEN {""}
    ELSE LET S == StrUpTo(n - 1)
         IN  S \cup {s \o c : s \in S, c \in CombineAlphabet}

\* the arguments of TestCombine
TestCombineBases == {"www.google.com/", "www.google.com"}
TestCombineRelatives == {"#", "/some/path/"}

\* have := Combine(base, relative)
CallCombine ==
    /\ combineAt = "args"
    /\ have' = Combine(base, relative)
    /\ combineAt' = "done"
    /\ UNCHANGED <<base, relative>>
    /\ UNCHANGED <<linkVars, pageVars, versionVars, runs, handler>>

    /\ UNCHANGED linkVars

----------------------------------------------------------------------------
(* InvalidLinks                                                            *)

\* a Go map: nil or made, and its entries
NilMap == [nil |-> TRUE, kv |-> <<>>]
MakeMap == [nil |-> FALSE, kv |-> <<>>]

\* out[k] = append(out[k], v)
MapAppend(m, k, v) ==
    IF k \in DOMAIN m THEN [m EXCEPT ![k] = Append(@, v)] ELSE m @@ (k :> <<v>>)

\* hrefs a page may hold: two without a hostname, one per hostname
AllHrefs == {"/p", "#", "http://a.com/x", "https://b.com"}

\* the groups traversePage builds from a set of hrefs
GroupByHostname(hrefs) ==
    LET hosts == {Hostname(url_Parse(h)) : h \in hrefs}
    IN  [d \in hosts |-> {h \in hrefs : Hostname(url_Parse(h)) = d}]

\* the link maps handed to InvalidLinks: nil (a zero PageContents), or the
\* groups of at most MaxLinks hrefs
LinkMapsUpTo(n) ==
    {NilMap} \cup
    {[nil |-> FALSE, kv |-> GroupByHostname(hrefs)] :
        hrefs \in {H \in SUBSET AllHrefs : Cardinality(H) <= n}}

LinkMaps == LinkMapsUpTo(MaxLinks)

\* the base URLs: with and without a trailing slash, and without a scheme
BaseURLs == {url_Parse(s) : s \in {"http://a.com/", "HTTP://a.com", "www.foobar"}}

\* what the servers may answer with
StatusCodes == {200, 404, 500, 599, 600}

\* why a request may fail
GetErrors == {"dial tcp: no such host"}

\* what a request to link, parsed as u, may return: [err, StatusCode]; a
\* link without an http scheme or without a host always fails
answers(link, u) ==
    IF u.err # "" \/ u.Scheme \notin {"http", "https"}
    THEN {[err |-> "Get \"" \o link \o "\": unsupported protocol scheme \""
                   \o (IF u.err # "" THEN "" ELSE u.Scheme) \o "\"",
           StatusCode |-> 0]}
    ELSE IF u.Host = ""
    THEN {[err |-> "Get \"" \o link \o "\": http: no Host in request URL",
           StatusCode |-> 0]}
    ELSE {[err |-> "Get \"" \o link \o "\": " \o e, StatusCode |-> 0] : e \in GetErrors}
         \cup {[err |-> "", StatusCode |-> c] : c \in StatusCodes}

\* http.Get
http_Get(link) == The({answers(link, u) : u \in {url_Parse(link)}})

\* a slip: 4xx answers are reported too
IsServerError_From400(code) == code >= 400 /\ code < 600

\* the status test of InvalidLinks
IsServerError(code) == code >= 500 /\ code < 600

\* a slip: a fixed text instead of the status code
StatusReason_NoCode(code) == "endpoint responded with code"

\* the reason reported for a 5xx answer
StatusReason(code) == "endpoint responded with code: " \o ToString(code)

\* a worker before its goroutine is started
IdleWorker ==
    [at |-> "idle", domain |-> "", relative |-> FALSE, links |-> {},
     link |-> "", href |-> "", resp |-> [err |-> "", StatusCode |-> 0]]

\* for domain, links := range p.Links { wg.Add(1); go func(domain, links) }
StartWorker(d) ==
    /\ mainAt = "range"
    /\ d \in rangeLinks
    /\ rangeLinks' = rangeLinks \ {d}
    /\ wg' = wg + 1
    /\ workers' = [workers EXCEPT ![d] =
                     [@ EXCEPT !.at = "start", !.domain = d, !.links = Links.kv[d]]]
    /\ UNCHANGED <<Links, baseURL, out, ch, mainAt, closerAt, ret, probed, outSrc>>
    /\ UNCHANGED <<combineVars, pageVars, versionVars, runs, handler>>

\* go func() { wg.Wait(); close(ch) }(), then main starts to range over ch
StartCloser ==
    /\ mainAt = "range"
    /\ rangeLinks = {}
    /\ closerAt' = "wait"
    /\ mainAt' = "recv"
    /\ UNCHANGED <<Links, baseURL, out, ch, wg, rangeLinks, workers, ret, probed, outSrc>>
    /\ UNCHANGED <<combineVars, pageVars, versionVars, runs, handler>>

\* relative := false; if domain == "" { relative = true; domain = baseURL.Hostname() }
WorkerStart(d) ==
    /\ workers[d].at = "start"
    /\ workers' = [workers EXCEPT ![d] =
                     IF @.domain = ""
                     THEN [@ EXCEPT !.at = "range", !.relative = TRUE,
                                    !.domain = Hostname(baseURL)]
                     ELSE [@ EXCEPT !.at = "range"]]
    /\ UNCHANGED <<Links, baseURL, out, ch, wg, mainAt, rangeLinks, closerAt, ret,
                   probed, outSrc>>
    /\ UNCHANGED <<combineVars, pageVars, versionVars, runs, handler>>

\* a slip: the workers range over the hrefs of every group
WorkerNext_AnyGroup(d) ==
    /\ workers[d].at = "range"
    /\ \E own \in workers[d].links :
         \E href \in UNION {Links.kv[g] : g \in DOMAIN Links.kv} :
             workers' = [workers EXCEPT ![d] =
                           [@ EXCEPT !.at = "get",
                                     !.links = @ \ {own},
                                     !.href = href,
                                     !.link = IF workers[d].relative
                                              THEN Combine(String(baseURL), href)
                                              ELSE href]]
    /\ UNCHANGED <<Links, baseURL, out, ch, wg, mainAt, rangeLinks, closerAt, ret,
                   probed, outSrc>>
    /\ UNCHANGED <<combineVars, pageVars, versionVars, runs, handler>>

\* for link := range links { if relative { link = Combine(baseURL.String(), link) }
\* in any order of the map's keys
WorkerNext(d) ==
    /\ workers[d].at = "range"
    /\ \E href \in workers[d].links :
         workers' = [workers EXCEPT ![d] =
                       [@ EXCEPT !.at = "get",
                                 !.links = @ \ {href},
                                 !.href = href,
                                 !.link = IF workers[d].relative
                                          THEN Combine(String(baseURL), href)
                                          ELSE href]]
    /\ UNCHANGED <<Links, baseURL, out, ch, wg, mainAt, rangeLinks, closerAt, ret,
                   probed, outSrc>>
    /\ UNCHANGED <<combineVars, pageVars, versionVars, runs, handler>>

\* what has happened to the body of a response just obtained: it is open,
\* and there is none when the request failed
Body(resp) == IF resp.err # "" THEN <<>> ELSE <<"open">>

\* a slip: a request error ends the worker's range over its links
WorkerGet_StopOnError(d) ==
    /\ workers[d].at = "get"
    /\ \E resp \in http_Get(workers[d].link) :
         /\ workers' = [workers EXCEPT ![d] =
                          [@ EXCEPT !.resp = resp,
                                    !.links = IF resp.err # "" THEN {} ELSE @,
                                    !.at = IF resp.err # "" THEN "sendErr" ELSE "close"]]
         /\ probed' = [probed EXCEPT ![d] =
                         Append(@, [href |-> workers[d].href, link |-> workers[d].link,
                                    resp |-> resp, body |-> Body(resp)])]
    /\ UNCHANGED <<Links, baseURL, out, ch, wg, mainAt, rangeLinks, closerAt, ret, outSrc>>
    /\ UNCHANGED <<combineVars, pageVars, versionVars, runs, handler>>

\* resp, err := http.Get(link)
WorkerGet(d) ==
    /\ workers[d].at = "get"
    /\ \E resp \in http_Get(workers[d].link) :
         /\ workers' = [workers EXCEPT ![d] =
                          [@ EXCEPT !.resp = resp,
                                    !.at = IF resp.err # "" THEN "sendErr" ELSE "close"]]
         /\ probed' = [probed EXCEPT ![d] =
                         Append(@, [href |-> workers[d].href, link |-> workers[d].link,
                                    resp |-> resp, body |-> Body(resp)])]
    /\ UNCHANGED <<Links, baseURL, out, ch, wg, mainAt, rangeLinks, closerAt, ret, outSrc>>
    /\ UNCHANGED <<combineVars, pageVars, versionVars, runs, handler>>

\* a slip: the body is not closed
WorkerClose_NoClose(d) ==
    /\ workers[d].at = "close"
    /\ workers' = [workers EXCEPT ![d] =
                     [@ EXCEPT !.at = IF IsServerError(workers[d].resp.StatusCode)
                                      THEN "sendStatus" ELSE "range"]]
    /\ probed' = [probed EXCEPT ![d][Len(probed[d])].body = @ \o <<"status">>]
    /\ UNCHANGED <<Links, baseURL, out, ch, wg, mainAt, rangeLinks, closerAt, ret, outSrc>>
    /\ UNCHANGED <<combineVars, pageVars, versionVars, runs, handler>>

\* resp.Body.Close(); if resp.StatusCode >= 500 && resp.StatusCode < 600 { ch <- ... }:
\* the body is closed, then the status code is looked at
WorkerClose(d) ==
    /\ workers[d].at = "close"
    /\ workers' = [workers EXCEPT ![d] =
                     [@ EXCEPT !.at = IF IsServerError(workers[d].resp.StatusCode)
                                      THEN "sendStatus" ELSE "range"]]
    /\ probed' = [probed EXCEPT ![d][Len(probed[d])].body = @ \o <<"close", "status">>]
    /\ UNCHANGED <<Links, baseURL, out, ch, wg, mainAt, rangeLinks, closerAt, ret, outSrc>>
    /\ UNCHANGED <<combineVars, pageVars, versionVars, runs, handler>>

\* the value a worker sends: data{Domain, Link: InvalidLink{URL, Reason}}
Data(w) ==
    [Domain |-> w.domain,
     Link |-> [URL |-> w.link,
               Reason |-> IF w.at = "sendErr" THEN w.resp.err
                          ELSE StatusReason(w.resp.StatusCode)]]

\* the key a result of worker d is stored under
SendDomain(d) == Data(workers[d]).Domain

\* a slip: the href instead of the address probed
SendLink_Href(d) == [Data(workers[d]).Link EXCEPT !.URL = workers[d].href]

\* the InvalidLink worker d sends
SendLink(d) == Data(workers[d]).Link

\* a slip: the received value replaces the key's list
Receive_Overwrite(m, k, v) == (k :> <<v>>) @@ m

\* a slip: the received value is put in front of the key's list
Receive_Prepend(m, k, v) ==
    IF k \in DOMAIN m THEN [m EXCEPT ![k] = <<v>> \o @] ELSE m @@ (k :> <<v>>)

\* out[l.Domain] = append(out[l.Domain], l.Link)
Receive(m, k, v) == MapAppend(m, k, v)

\* ch <- data{...} in worker d meets l := <-ch of main's range over ch:
\* out[l.Domain] = append(out[l.Domain], l.Link); the worker goes on
Send(d) ==
    /\ workers[d].at \in {"sendErr", "sendStatus"}
    /\ mainAt = "recv"
    /\ ch = "open"
    /\ out' = Receive(out, SendDomain(d), SendLink(d))
    /\ outSrc' = MapAppend(outSrc, SendDomain(d),
                           [group |-> d, href |-> workers[d].href])
    /\ workers' = [workers EXCEPT ![d] = [@ EXCEPT !.at = "range"]]
    /\ UNCHANGED <<Links, baseURL, ch, wg, mainAt, rangeLinks, closerAt, ret, probed>>
    /\ UNCHANGED <<combineVars, pageVars, versionVars, runs, handler>>

\* a slip: the worker returns without wg.Done()
WorkerDone_NoSignal(d) ==
    /\ workers[d].at = "range"
    /\ workers[d].links = {}
    /\ workers' = [workers EXCEPT ![d] = [@ EXCEPT !.at = "done"]]
    /\ UNCHANGED <<Links, baseURL, out, ch, wg, mainAt, rangeLinks, closerAt, ret,
                   probed, outSrc>>
    /\ UNCHANGED <<combineVars, pageVars, versionVars, runs, handler>>

\* the range over links is over: return, and the deferred wg.Done()
WorkerDone(d) ==
    /\ workers[d].at = "range"
    /\ workers[d].links = {}
    /\ workers' = [workers EXCEPT ![d] = [@ EXCEPT !.at = "done"]]
    /\ wg' = wg - 1
    /\ UNCHANGED <<Links, baseURL, out, ch, mainAt, rangeLinks, closerAt, ret,
                   probed, outSrc>>
    /\ UNCHANGED <<combineVars, pageVars, versionVars, runs, handler>>

\* a slip: the closer does not wait for the workers
CloserWait_NoWait ==
    /\ closerAt = "wait"
    /\ closerAt' = "close"
    /\ UNCHANGED <<Links, baseURL, out, ch, wg, mainAt, rangeLinks, workers, ret,
                   probed, outSrc>>
    /\ UNCHANGED <<combineVars, pageVars, versionVars, runs, handler>>

\* wg.Wait() returns when the counter is zero
CloserWait ==
    /\ closerAt = "wait"
    /\ wg = 0
    /\ closerAt' = "close"
    /\ UNCHANGED <<Links, baseURL, out, ch, wg, mainAt, rangeLinks, workers, ret,
                   probed, outSrc>>
    /\ UNCHANGED <<combineVars, pageVars, versionVars, runs, handler>>

\* close(ch)
CloserClose ==
    /\ closerAt = "close"
    /\ ch' = "closed"
    /\ closerAt' = "done"
    /\ UNCHANGED <<Links, baseURL, out, wg, mainAt, rangeLinks, workers, ret,
                   probed, outSrc>>
    /\ UNCHANGED <<combineVars, pageVars, versionVars, runs, handler>>

\* a slip: nil is returned when nothing was received
Return_NilWhenEmpty(m) ==
    [returned |-> TRUE, nil |-> (DOMAIN m = {}), kv |-> m]

\* what InvalidLinks returns: out, made at its start
Return(m) == [returned |-> TRUE, nil |-> FALSE, kv |-> m]

\* the range over ch ends when ch is closed: return out
InvalidLinksReturn ==
    /\ mainAt = "recv"
    /\ ch = "closed"
    /\ ret' = Return(out)
    /\ mainAt' = "returned"
    /\ UNCHANGED <<Links, baseURL, out, ch, wg, rangeLinks, workers, closerAt,
                   probed, outSrc>>
    /\ UNCHANGED <<combineVars, pageVars, versionVars, runs, handler>>

InvalidLinks ==
    \/ \E d \in DOMAIN workers : StartWorker(d)
    \/ StartCloser
    \/ \E d \in DOMAIN workers : WorkerStart(d)
    \/ \E d \in DOMAIN workers : WorkerNext(d)
    \/ \E d \in DOMAIN workers : WorkerGet(d)
    \/ \E d \in DOMAIN workers : WorkerClose(d)
    \/ \E d \in DOMAIN workers : Send(d)
    \/ \E d \in DOMAIN workers : WorkerDone(d)
    \/ CloserWait
    \/ CloserClose
    \/ InvalidLinksReturn

----------------------------------------------------------------------------
(* extractVersion                                                          *)

\* HTML versions
Version5 == "5"
Version4_01 == "4.01"
Version4_0 == "4.0"
Version3_2 == "3.2"
Version3_0 == "3.0"
Version2_0 == "2.0"
LessThan2_0 == "<2.0"

\* HTML versions regexes: " (?i)HTML 4.01" is a space, then, letters in
\* either case and "." standing for any character, the rest
reVersion4_01 == [exact |-> " ", fold |-> "HTML 4.01"]
reVersion4_0 == [exact |-> " ", fold |-> "HTML 4.0"]
reVersion3_2 == [exact |-> " ", fold |-> "HTML 3.2"]
reVersion3_0 == [exact |-> " ", fold |-> "HTML 3.0"]
reVersion2_0 == [exact |-> " ", fold |-> "HTML 2.0"]

\* the regex matches s at byte i
matchAt(re, s, i) ==
    /\ i + Len(re.exact) + Len(re.fold) - 1 <= Len(s)
    /\ SubSeq(s, i, i + Len(re.exact) - 1) = re.exact
    /\ \A k \in 1..Len(re.fold) :
         \/ CharAt(re.fold, k) = "."
         \/ LowerChar(CharAt(re.fold, k)) = LowerChar(CharAt(s, i + Len(re.exact) + k - 1))

\* (*regexp.Regexp).MatchString: the regex matches somewhere in s
MatchString(re, s) == \E i \in 1..Len(s) : matchAt(re, s, i)

\* the loop of extractVersion from attribute i on: the first attribute that
\* matches a regex breaks the loop
RECURSIVE versionOfAttrs(_, _)
versionOfAttrs(Attr, i) ==
    IF i > Len(Attr) THEN LessThan2_0
    ELSE IF MatchString(reVersion4_01, Attr[i].Val) THEN Version4_01
    ELSE IF MatchString(reVersion4_0, Attr[i].Val) THEN Version4_0
    ELSE IF MatchString(reVersion3_2, Attr[i].Val) THEN Version3_2
    ELSE IF MatchString(reVersion3_0, Attr[i].Val) THEN Version3_0
    ELSE IF MatchString(reVersion2_0, Attr[i].Val) THEN Version2_0
    ELSE versionOfAttrs(Attr, i + 1)

\* a slip: no default, Version stays as it was when no regex matches
extractVersion_NoDefault(node) ==
    IF Len(node.Attr) = 0 THEN Version5
    ELSE IF versionOfAttrs(node.Attr, 1) = LessThan2_0 THEN ""
    ELSE versionOfAttrs(node.Attr, 1)

\* extractVersion: the Version it stores for a doctype node
extractVersion(node) ==
    IF Len(node.Attr) = 0 THEN Version5 ELSE versionOfAttrs(node.Attr, 1)

\* public and system identifiers of doctype declarations
DoctypeVals ==
    {"-//W3C//DTD HTML 4.01//EN", "-//W3C//DTD HTML 4.0//EN",
     "-//W3C//DTD HTML 3.2//EN", "-//W3C//DTD HTML 3.0//EN",
     "-//IETF//DTD HTML 2.0//EN", "-//W3C//DTD HTML 1.0//EN",
     "-//w3c//dtd html 4.01//en", "-//W3C//DTD HTML 4x01//EN",
     "-//W3C//DTD XHTML 1.0 Strict//EN", "http://www.w3.org/TR/html4/strict.dtd"}

RECURSIVE AttrsUpTo(_)
AttrsUpTo(n) ==
    IF n = 0 THEN {<<>>}
    ELSE LET S == AttrsUpTo(n - 1)
         IN  S \cup {Append(a, [Key |-> IF Len(a) = 0 THEN "public" ELSE "system", Val |-> v]) :
                        a \in S, v \in DoctypeVals}

DoctypeNode(Attr) == [Type |-> "Doctype", Data |-> "html", Attr |-> Attr, Parent |-> 1]

\* pc := newPageContents(); pc.extractVersion(node)
CallExtractVersion ==
    /\ versionAt = "node"
    /\ version' = extractVersion(doctype)
    /\ versionAt' = "done"
    /\ UNCHANGED doctype
    /\ UNCHANGED <<combineVars, linkVars, pageVars, runs, handler>>

----------------------------------------------------------------------------
(* Page and traversePage                                                   *)

\* a tree is the sequence of its nodes in document order, each with the
\* index of its parent (0 for the document node)
DocumentNode == [Type |-> "Document", Data |-> "", Attr |-> <<>>, Parent |-> 0]
Element(tag, Attr) == [Type |-> "Element", Data |-> tag, Attr |-> Attr]
Text(data) == [Type |-> "Text", Data |-> data, Attr |-> <<>>]

Children(t, i) == {j \in 1..Len(t) : t[j].Parent = i}

\* node.FirstChild: 0 is nil
FirstChild(t, i) ==
    IF Children(t, i) = {} THEN 0
    ELSE CHOOSE j \in Children(t, i) : \A k \in Children(t, i) : j <= k

\* node.NextSibling: 0 is nil
NextSibling(t, j) ==
    LET later == {k \in Children(t, t[j].Parent) : k > j}
    IN  IF later = {} THEN 0 ELSE CHOOSE k \in later : \A l \in later : k <= l

\* newPageContents
newPageContents ==
    [Version |-> "", Title |-> "", Headings |-> <<>>, Links |-> <<>>,
     LoginForm |-> FALSE]

isHeading(tag) == tag \in {"h1", "h2", "h3", "h4", "h5", "h6"}

\* if strings.ToLower(node.Data) == "title" { if node.FirstChild != nil { ... } }
setTitle(p, t, i) ==
    IF ToLower(t[i].Data) = "title" /\ FirstChild(t, i) # 0
    THEN [p EXCEPT !.Title = t[FirstChild(t, i)].Data]
    ELSE p

\* if isHeading(node.Data) { p.Headings[node.Data]++ }
countHeading(p, t, i) ==
    IF isHeading(t[i].Data)
    THEN [p EXCEPT !.Headings =
            IF t[i].Data \in DOMAIN @ THEN [@ EXCEPT ![t[i].Data] = @ + 1]
            ELSE @ @@ (t[i].Data :> 1)]
    ELSE p

\* a slip: the set of the host is made anew at every href
addLink_Replace(p, host, val) ==
    [p EXCEPT !.Links =
        IF host \in DOMAIN @ THEN [@ EXCEPT ![host] = {val}]
        ELSE @ @@ (host :> {val})]

\* p.Links[host][val] = struct{}{}, the set made when absent
addLink(p, host, val) ==
    [p EXCEPT !.Links =
        IF host \in DOMAIN @ THEN [@ EXCEPT ![host] = @ \cup {val}]
        ELSE @ @@ (host :> {val})]

\* the loop over the attributes of an <a> from attribute k on: [p, err]
RECURSIVE addLinks(_, _, _)
addLinks(p, Attr, k) ==
    IF k > Len(Attr) THEN [p |-> p, err |-> ""]
    ELSE IF ToLower(Attr[k].Key) # "href" THEN addLinks(p, Attr, k + 1)
    ELSE IF url_Parse(Attr[k].Val).err # ""
    THEN [p |-> p,
          err |-> "unable to parse URL \"" \o Attr[k].Val \o "\": "
                  \o url_Parse(Attr[k].Val).err]
    ELSE addLinks(addLink(p, Hostname(url_Parse(Attr[k].Val)), Attr[k].Val), Attr, k + 1)

\* a slip: only the parent of the <input> is looked at
insideForm_ParentOnly(t, i) ==
    t[i].Parent # 0 /\ ToLower(t[t[i].Parent].Data) = "form"

\* for p := node.Parent; p != nil; p = p.Parent { if ToLower(p.Data) == "form" }
RECURSIVE insideForm(_, _)
insideForm(t, i) ==
    IF t[i].Parent = 0 THEN FALSE
    ELSE IF ToLower(t[t[i].Parent].Data) = "form" THEN TRUE
    ELSE insideForm(t, t[i].Parent)

\* the login form check of an <input>
checkLogin(p, t, i) ==
    IF /\ ToLower(t[i].Data) = "input"
       /\ \E k \in 1..Len(t[i].Attr) :
            ToLower(t[i].Attr[k].Key) = "type" /\ ToLower(t[i].Attr[k].Val) = "password"
       /\ insideForm(t, i)
    THEN [p EXCEPT !.LoginForm = TRUE]
    ELSE p

\* the links of an element, after its title, heading and login form checks
visitLinks(p, t, i) ==
    IF ToLower(t[i].Data) = "a" THEN addLinks(p, t[i].Attr, 1)
    ELSE [p |-> p, err |-> ""]

\* the login form check follows the links, unless they returned an error
visitLogin(r, t, i) ==
    IF r.err # "" THEN r ELSE [p |-> checkLogin(r.p, t, i), err |-> ""]

\* the switch on node.Type of traversePage: [p, err]
visit(p, t, i) ==
    IF t[i].Type = "Doctype"
    THEN [p |-> [p EXCEPT !.Version = extractVersion(t[i])], err |-> ""]
    ELSE IF t[i].Type = "Element"
    THEN visitLogin(visitLinks(countHeading(setTitle(p, t, i), t, i), t, i), t, i)
    ELSE [p |-> p, err |-> ""]

\* the elements of the generated trees
PageElements ==
    {Element("title", <<>>),
     Element("a", <<[Key |-> "href", Val |-> "%%2"]>>),
     Element("a", <<[Key |-> "href", Val |-> "/p"]>>)}

\* the text nodes of the generated trees
PageTexts == {Text("A"), Text("B")}

\* the doctype nodes of the generated trees
PageDoctypes ==
    {DoctypeNode(<<>>),
     DoctypeNode(<<[Key |-> "public", Val |-> "-//W3C//DTD HTML 4.01//EN"]>>),
     DoctypeNode(<<[Key |-> "public", Val |-> "-//W3C//DTD HTML 1.0//EN"]>>)}

\* the nodes a new last node may hang under: the last node or one of its
\* ancestors, if a document or an element
RECURSIVE OpenNodes(_, _)
OpenNodes(t, i) ==
    IF i = 0 THEN {}
    ELSE (IF t[i].Type \in {"Document", "Element"} THEN {i} ELSE {})
         \cup OpenNodes(t, t[i].Parent)

\* the trees of start and those with up to n more nodes, in document order
RECURSIVE TreesUpTo(_, _, _)
TreesUpTo(start, nodes, n) ==
    IF n = 0 THEN start
    ELSE LET S == TreesUpTo(start, nodes, n - 1)
         IN  S \cup UNION {{Append(t, [Type |-> x[1].Type, Data |-> x[1].Data,
                                       Attr |-> x[1].Attr, Parent |-> x[2]]) :
                               x \in {y \in nodes \X OpenNodes(t, Len(t)) :
                                         /\ t[y[2]].Data = "title" => y[1].Type = "Text"
                                         /\ y[1].Type = "Text" => t[y[2]].Data = "title"}} :
                           t \in S}

\* what html.Parse may return: a document node, a doctype node or none as
\* its first child, and up to n elements and text nodes; a <title> holds
\* text only and the other elements hold elements only
PageTrees(n) ==
    TreesUpTo({<<DocumentNode>>} \cup {<<DocumentNode, d>> : d \in PageDoctypes},
              PageElements \cup PageTexts, n)

\* heading elements; html.Parse lower-cases tag names, a tree built by hand
\* need not
HeadingElements == {Element("h1", <<>>), Element("H1", <<>>), Element("h2", <<>>)}

\* <a> elements: relative hrefs one character apart, two schemes of one
\* host, and an href that url.Parse rejects
AnchorElements ==
    {Element("a", <<[Key |-> "href", Val |-> h]>>) :
        h \in {"/p", "/q", "http://a.com/x", "https://a.com/x", "%%2"}}

\* forms and inputs
FormElements ==
    {Element("form", <<>>), Element("div", <<>>),
     Element("input", <<[Key |-> "type", Val |-> "password"]>>),
     Element("input", <<[Key |-> "type", Val |-> "text"]>>),
     Element("input", <<[Key |-> "name", Val |-> "pw"], [Key |-> "type", Val |-> "PASSWORD"]>>)}

\* trees of up to n elements of one kind under the document node
ElementTrees(n) ==
    TreesUpTo({<<DocumentNode>>}, HeadingElements, n)
    \cup TreesUpTo({<<DocumentNode>>}, AnchorElements, n)
    \cup TreesUpTo({<<DocumentNode>>}, FormElements, n)

\* a heading, a link that parses, one that does not, and an <a> whose second
\* href does not parse after a first one that does
FailingElements ==
    {Element("h1", <<>>),
     Element("a", <<[Key |-> "href", Val |-> "/p"]>>),
     Element("a", <<[Key |-> "href", Val |-> "%%2"]>>),
     Element("a", <<[Key |-> "href", Val |-> "/q"], [Key |-> "href", Val |-> "%%2"]>>)}

\* trees of up to n of these elements under the document node
FailingTrees(n) == TreesUpTo({<<DocumentNode>>}, FailingElements, n)

\* a call of traversePage(node): c is the child its loop is at (0: nil),
\* entered is whether the switch on node.Type is done
Frame(i) == [node |-> i, c |-> 0, entered |-> FALSE]

\* Page before its return, and the values it returns
NotReturned == [returned |-> FALSE, nil |-> TRUE, pc |-> newPageContents, err |-> ""]

\* a slip: the PageContents filled so far is returned with the error
PageError_Partial(p, e) ==
    [returned |-> TRUE, nil |-> FALSE, pc |-> p,
     err |-> "inspect.Page: unexpected error: " \o e]

\* return nil, fmt.Errorf("inspect.Page: unexpected error: %w", err)
PageError(p, e) ==
    [returned |-> TRUE, nil |-> TRUE, pc |-> newPageContents,
     err |-> "inspect.Page: unexpected error: " \o e]

\* return pc, nil
PageOk(p) == [returned |-> TRUE, nil |-> FALSE, pc |-> p, err |-> ""]

\* the switch on node.Type in the innermost call; an unparsable href
\* returns the error at once
Visit ==
    /\ stack # <<>>
    /\ ~stack[Len(stack)].entered
    /\ err = ""
    /\ LET i == stack[Len(stack)].node
           r == visit(pc, tree, i)
       IN  /\ pc' = r.p
           /\ err' = r.err
           /\ stack' = IF r.err # "" THEN SubSeq(stack, 1, Len(stack) - 1)
                       ELSE [stack EXCEPT ![Len(stack)] =
                               [@ EXCEPT !.entered = TRUE, !.c = FirstChild(tree, i)]]
    /\ UNCHANGED <<tree, page>>
    /\ UNCHANGED <<combineVars, linkVars, versionVars, runs, handler>>

\* for c := node.FirstChild; c != nil; ... { p.traversePage(c) }
Descend ==
    /\ stack # <<>>
    /\ stack[Len(stack)].entered
    /\ err = ""
    /\ stack[Len(stack)].c # 0
    /\ stack' = Append(stack, Frame(stack[Len(stack)].c))
    /\ UNCHANGED <<tree, pc, err, page>>
    /\ UNCHANGED <<combineVars, linkVars, versionVars, runs, handler>>

\* the loop over the children is over: return nil; the caller's loop moves
\* to c.NextSibling
ReturnNil ==
    /\ stack # <<>>
    /\ stack[Len(stack)].entered
    /\ err = ""
    /\ stack[Len(stack)].c = 0
    /\ stack' = IF Len(stack) = 1 THEN <<>>
                ELSE [SubSeq(stack, 1, Len(stack) - 1) EXCEPT ![Len(stack) - 1] =
                        [@ EXCEPT !.c = NextSibling(tree, stack[Len(stack) - 1].c)]]
    /\ UNCHANGED <<tree, pc, err, page>>
    /\ UNCHANGED <<combineVars, linkVars, versionVars, runs, handler>>

\* a slip: the caller drops the error of the child and goes on with the next
ReturnErr_Resume ==
    /\ stack # <<>>
    /\ err # ""
    /\ err' = ""
    /\ stack' = [stack EXCEPT ![Len(stack)] =
                   [@ EXCEPT !.c = NextSibling(tree, stack[Len(stack)].c)]]
    /\ UNCHANGED <<tree, pc, page>>
    /\ UNCHANGED <<combineVars, linkVars, versionVars, runs, handler>>

\* if err := p.traversePage(c); err != nil { return fmt.Errorf("inspect.traversePage: %w", err) }
ReturnErr ==
    /\ stack # <<>>
    /\ err # ""
    /\ err' = "inspect.traversePage: " \o err
    /\ stack' = SubSeq(stack, 1, Len(stack) - 1)
    /\ UNCHANGED <<tree, pc, page>>
    /\ UNCHANGED <<combineVars, linkVars, versionVars, runs, handler>>

\* traversePage(root) has returned: Page returns
PageReturn ==
    /\ stack = <<>>
    /\ ~page.returned
    /\ page' = IF err # "" THEN PageError(pc, err) ELSE PageOk(pc)
    /\ UNCHANGED <<tree, stack, pc, err>>
    /\ UNCHANGED <<combineVars, linkVars, versionVars, runs, handler>>

Page ==
    \/ Visit
    \/ Descend
    \/ ReturnNil
    \/ ReturnErr
    \/ PageReturn


\* the number of calls of traversePage around the call on node i
RECURSIVE Depth(_, _)
Depth(t, i) == IF t[i].Parent = 0 THEN 0 ELSE 1 + Depth(t, t[i].Parent)

\* the error of node i as the outermost call returns it: wrapped once by
\* every enclosing call
RECURSIVE Wrapped(_, _)
Wrapped(e, n) == IF n = 0 THEN e ELSE "inspect.traversePage: " \o Wrapped(e, n - 1)

\* traversePage(root) in one go: the nodes are visited in document order,
\* from node i on, up to the first error
RECURSIVE traverseFrom(_, _, _)
traverseFrom(p, t, i) ==
    IF i > Len(t) THEN [p |-> p, err |-> ""]
    ELSE LET r == visit(p, t, i)
         IN  IF r.err # "" THEN [p |-> r.p, err |-> Wrapped(r.err, Depth(t, i))]
             ELSE traverseFrom(r.p, t, i + 1)

\* Page(page) in one go, for its callers: what it returns for the tree t
PageOf(t) ==
    LET r == traverseFrom(newPageContents, t, 1)
    IN  IF r.err # "" THEN PageError(r.p, r.err) ELSE PageOk(r.p)

----------------------------------------------------------------------------
(* Two calls of Page on one tree                                           *)

\* the caller before its second call
FirstRun == [n |-> 1, first |-> NotReturned]

\* a slip: the second call goes on with the PageContents of the first
FreshContents_Kept(p) == p

\* pc := newPageContents(), in every call of Page
FreshContents(p) == newPageContents

\* Page has returned; it is called again on the same tree
PageAgain ==
    /\ page.returned
    /\ runs.n = 1
    /\ runs' = [n |-> 2, first |-> page]
    /\ page' = NotReturned
    /\ pc' = FreshContents(pc)
    /\ err' = ""
    /\ stack' = <<Frame(1)>>
    /\ UNCHANGED tree
    /\ UNCHANGED <<combineVars, linkVars, versionVars, handler>>

PageTwice ==
    \/ Visit
    \/ Descend
    \/ ReturnNil
    \/ ReturnErr
    \/ PageReturn
    \/ PageAgain

----------------------------------------------------------------------------
(* parseHtml                                                               *)

\* the content-type headers of the requests
ContentTypes == {"application/json", "text/plain", ""}

\* the request bodies: no JSON at all, no url, an empty url, one url.Parse
\* rejects, a page's address, one without a hostname, one without a scheme,
\* and a url that is no string
Bodies ==
    {"", "{\"url\": \"\"}", "{\"url\": \"%%2\"}", "{\"url\": \"http://a.com/\"}",
     "{\"url\": \"http://:80\"}", "{\"url\": \"a.com\"}", "{\"url\": 5}", "{}"}

\* json.Unmarshal(body, &payload) on an object with at most the key "url":
\* [err, URL]; a value that is no string is an error
json_Unmarshal(body) ==
    IF body = "{}" THEN [err |-> "", URL |-> ""]
    ELSE IF body = "{\"url\": 5}"
    THEN [err |-> "json: cannot unmarshal number into Go struct field "
                  \o "ParseHTMLRequest.url of type string",
          URL |-> ""]
    ELSE IF Len(body) >= 11 /\ HasPrefix(body, "{\"url\": \"") /\ HasSuffix(body, "\"}")
    THEN [err |-> "", URL |-> SubSeq(body, 10, Len(body) - 2)]
    ELSE IF body = "" THEN [err |-> "unexpected end of JSON input", URL |-> ""]
    ELSE [err |-> "invalid character in JSON input", URL |-> ""]

\* errors of io.ReadAll: none, or a broken connection
ReadErrors == {"", "unexpected EOF"}

\* the hrefs of the pages fetched: two relative, one of the page's host, one
\* of another host, and one that url.Parse rejects
PageHrefs == {"/x", "#", "http://a.com/x", "https://b.com", "%%2"}

\* the sequences that hold every element of the set S once
Orders(S) ==
    {q \in [1..Cardinality(S) -> S] : \A i, j \in 1..Cardinality(S) : q[i] = q[j] => i = j}

\* the tree of a page with one <a> per href, in the order of hrefs
FlatPage(hrefs) ==
    <<DocumentNode>> \o
    [i \in 1..Len(hrefs) |->
        [Type |-> "Element", Data |-> "a",
         Attr |-> <<[Key |-> "href", Val |-> hrefs[i]]>>, Parent |-> 1]]

\* what html.Parse gives for the pages fetched: at most MaxLinks links
FetchedPages ==
    {FlatPage(The({q \in Orders(H) : TRUE})) :
        H \in {G \in SUBSET PageHrefs : Cardinality(G) <= MaxLinks}}

\* ParseHTMLResponse before it is filled; a nil Internal is [nil |-> TRUE]
EmptyResponse ==
    [Version |-> "", Title |-> "", LoginForm |-> FALSE, Headings |-> <<>>,
     Internal |-> [nil |-> TRUE, Domain |-> "", Links |-> <<>>, Total |-> 0],
     External |-> <<>>, Inaccessible |-> <<>>]

\* the handler before a request
IdleHandler ==
    [at |-> "idle", contentType |-> "", body |-> "", readErr |-> "", payload |-> "",
     u |-> url_Parse(""), fetches |-> 0, fetchErr |-> "", pageErr |-> "",
     contents |-> newPageContents, out |-> EmptyResponse, responses |-> <<>>]

\* a request arrives
NewRequest(contentType, body) ==
    [IdleHandler EXCEPT !.at = "contentType", !.contentType = contentType, !.body = body]

\* JSONError(w, msg, status); return
JSONError(h, msg, status) ==
    [h EXCEPT !.at = "done",
              !.responses = Append(@, [status |-> status, err |-> msg, out |-> EmptyResponse])]

\* JSON(w, &out, status)
JSON(h, payload, status) ==
    [h EXCEPT !.at = "done",
              !.responses = Append(@, [status |-> status, err |-> "", out |-> payload])]

handlerFrame == <<combineVars, versionVars, runs, stack, pc, err, page>>
linkFrame == <<baseURL, out, ch, wg, mainAt, rangeLinks, workers, closerAt, ret,
               probed, outSrc>>

\* a slip: the content type is not looked at
CheckContentType_Skip ==
    /\ handler.at = "contentType"
    /\ handler' = [handler EXCEPT !.at = "read"]
    /\ UNCHANGED <<handlerFrame, tree, Links, linkFrame>>

\* if r.Header.Get("content-type") != "application/json"
CheckContentType ==
    /\ handler.at = "contentType"
    /\ handler' = IF handler.contentType # "application/json"
                  THEN JSONError(handler, "Invalid content-type", 400)
                  ELSE [handler EXCEPT !.at = "read"]
    /\ UNCHANGED <<handlerFrame, tree, Links, linkFrame>>

\* body, err := io.ReadAll(r.Body)
ReadBody ==
    /\ handler.at = "read"
    /\ \E e \in ReadErrors :
         handler' = IF e # ""
                    THEN JSONError([handler EXCEPT !.readErr = e], e, 500)
                    ELSE [handler EXCEPT !.at = "unmarshal"]
    /\ UNCHANGED <<handlerFrame, tree, Links, linkFrame>>

\* json.Unmarshal(body, &payload)
Unmarshal ==
    /\ handler.at = "unmarshal"
    /\ handler' = LET r == json_Unmarshal(handler.body)
                  IN  IF r.err # "" THEN JSONError(handler, r.err, 500)
                      ELSE [handler EXCEPT !.at = "emptyURL", !.payload = r.URL]
    /\ UNCHANGED <<handlerFrame, tree, Links, linkFrame>>

\* if payload.URL == ""
CheckEmptyURL ==
    /\ handler.at = "emptyURL"
    /\ handler' = IF handler.payload = ""
                  THEN JSONError(handler, "empty URL in payload", 400)
                  ELSE [handler EXCEPT !.at = "parse"]
    /\ UNCHANGED <<handlerFrame, tree, Links, linkFrame>>

\* u, err := url.Parse(payload.URL)
ParseURL ==
    /\ handler.at = "parse"
    /\ handler' = LET u == url_Parse(handler.payload)
                  IN  IF u.err # "" THEN JSONError(handler, u.err, 400)
                      ELSE [handler EXCEPT !.at = "fetch", !.u = u]
    /\ UNCHANGED <<handlerFrame, tree, Links, linkFrame>>

\* resp, err := http.Get(u.String()); body, err = ioutil.ReadAll(resp.Body):
\* the status of the answer is not looked at, the body is some page
Fetch ==
    /\ handler.at = "fetch"
    /\ \E resp \in http_Get(String(handler.u)), e \in ReadErrors, t \in FetchedPages :
         LET h == [handler EXCEPT !.fetches = @ + 1] IN
         IF resp.err # ""
         THEN /\ handler' = JSONError([h EXCEPT !.fetchErr = resp.err], resp.err, 500)
              /\ UNCHANGED tree
         ELSE IF e # ""
         THEN /\ handler' = JSONError([h EXCEPT !.fetchErr = e], e, 500)
              /\ UNCHANGED tree
         ELSE /\ handler' = [h EXCEPT !.at = "extract"]
              /\ tree' = t
    /\ UNCHANGED <<handlerFrame, Links, linkFrame>>

\* contents, err := inspect.Page(bytes.NewReader(body))
Extract ==
    /\ handler.at = "extract"
    /\ LET r == PageOf(tree)
       IN  IF r.err # ""
           THEN /\ handler' = JSONError([handler EXCEPT !.pageErr = r.err], r.err, 400)
                /\ UNCHANGED Links
           ELSE /\ handler' = [handler EXCEPT !.at = "report",
                                              !.contents = [r.pc EXCEPT !.Links = <<>>]]
                /\ Links' = [nil |-> FALSE, kv |-> r.pc.Links]
    /\ UNCHANGED <<handlerFrame, tree, linkFrame>>

\* out := ParseHTMLResponse{...}; the title defaults to the URL; one Heading
\* per level, in the order of the map's iteration
Report ==
    /\ handler.at = "report"
    /\ \E levels \in Orders(DOMAIN handler.contents.Headings) :
         LET title == IF handler.contents.Title = "" THEN String(handler.u)
                      ELSE handler.contents.Title
         IN  handler' =
               [handler EXCEPT
                  !.at = "invalidLinks",
                  !.contents = [@ EXCEPT !.Title = title],
                  !.out = [@ EXCEPT
                             !.Version = handler.contents.Version,
                             !.LoginForm = handler.contents.LoginForm,
                             !.Title = title,
                             !.Headings =
                                [i \in 1..Len(levels) |->
                                   [Level |-> levels[i],
                                    Total |-> handler.contents.Headings[levels[i]]]]]]
    /\ UNCHANGED <<handlerFrame, tree, Links, linkFrame>>

\* contents.InvalidLinks(*u) is called
CallInvalidLinks ==
    /\ handler.at = "invalidLinks"
    /\ handler' = [handler EXCEPT !.at = "await"]
    /\ baseURL' = handler.u
    /\ out' = <<>>
    /\ ch' = "open"
    /\ wg' = 0
    /\ mainAt' = "range"
    /\ rangeLinks' = DOMAIN Links.kv
    /\ workers' = [d \in DOMAIN Links.kv |-> IdleWorker]
    /\ closerAt' = "idle"
    /\ probed' = [d \in DOMAIN Links.kv |-> <<>>]
    /\ outSrc' = <<>>
    /\ UNCHANGED <<handlerFrame, tree, Links, ret>>

\* a slip: the handler goes on before InvalidLinks has returned
Inaccessible_NoWait ==
    /\ handler.at = "await"
    /\ \E domains \in Orders(DOMAIN ret.kv) :
         handler' =
           [handler EXCEPT
              !.at = "consume",
              !.out = [@ EXCEPT !.Inaccessible =
                         [i \in 1..Len(domains) |->
                            [Domain |-> domains[i], Links |-> ret.kv[domains[i]],
                             Total |-> Len(ret.kv[domains[i]])]]]]
    /\ UNCHANGED <<handlerFrame, tree, Links, linkFrame>>

\* for domain, links := range contents.InvalidLinks(*u): one InvalidLink per
\* key of the result, in the order of the map's iteration
Inaccessible ==
    /\ handler.at = "await"
    /\ ret.returned
    /\ \E domains \in Orders(DOMAIN ret.kv) :
         handler' =
           [handler EXCEPT
              !.at = "consume",
              !.out = [@ EXCEPT !.Inaccessible =
                         [i \in 1..Len(domains) |->
                            [Domain |-> domains[i], Links |-> ret.kv[domains[i]],
                             Total |-> Len(ret.kv[domains[i]])]]]]
    /\ UNCHANGED <<handlerFrame, tree, Links, linkFrame>>

\* links[k], the empty set when k is no key
Group(kv, k) == IF k \in DOMAIN kv THEN kv[k] ELSE {}

\* delete(links, k)
Delete(kv, k) == [d \in DOMAIN kv \ {k} |-> kv[d]]

\* delete(links, ""); delete(links, u.Hostname())
DeleteBoth(kv, u) == Delete(Delete(kv, ""), Hostname(u))

\* consumeInternalLinks(u, links): what it may return and leave of links,
\* each group ranged over in any order: [out, links]
consumeInternalLinks(u, kv) ==
    {[out |-> [i \in 1..Len(rel) |-> Combine(String(u), rel[i])] \o abs,
      links |-> DeleteBoth(kv, u)] :
        rel \in Orders(Group(kv, "")), abs \in Orders(Group(kv, Hostname(u)))}

\* if internal := consumeInternalLinks(u, contents.Links); len(internal) > 0
Consume ==
    /\ handler.at = "consume"
    /\ \E r \in consumeInternalLinks(handler.u, Links.kv) :
         /\ Links' = [Links EXCEPT !.kv = r.links]
         /\ handler' =
              [handler EXCEPT
                 !.at = "external",
                 !.out = IF Len(r.out) > 0
                         THEN [@ EXCEPT !.Internal =
                                 [nil |-> FALSE, Domain |-> Hostname(handler.u),
                                  Links |-> r.out, Total |-> Len(r.out)]]
                         ELSE @]
    /\ UNCHANGED <<handlerFrame, tree, linkFrame>>

\* the Link lists the rest of the map may give: the keys and the hrefs of
\* each key in the order of the map's iteration
LinkLists(kv) ==
    {[i \in 1..Len(domains) |->
        [Domain |-> domains[i], Links |-> links[domains[i]],
         Total |-> Len(links[domains[i]])]] :
        domains \in Orders(DOMAIN kv),
        links \in {f \in [DOMAIN kv -> UNION {Orders(kv[d]) : d \in DOMAIN kv}] :
                     \A d \in DOMAIN kv : f[d] \in Orders(kv[d])}}

\* for domain, links := range contents.Links { ... }; JSON(w, &out, 200)
External ==
    /\ handler.at = "external"
    /\ \E list \in LinkLists(Links.kv) :
         handler' = LET h == [handler EXCEPT !.out = [@ EXCEPT !.External = list]]
                    IN  JSON(h, h.out, 200)
    /\ UNCHANGED <<handlerFrame, tree, Links, linkFrame>>

\* one request through the handler, InvalidLinks and its goroutines included
parseHtml ==
    \/ CheckContentType
    \/ ReadBody
    \/ Unmarshal
    \/ CheckEmptyURL
    \/ ParseURL
    \/ Fetch
    \/ Extract
    \/ Report
    \/ CallInvalidLinks
    \/ InvalidLinks
    \/ Inaccessible
    \/ Consume
    \/ External


----------------------------------------------------------------------------
(* Specifications                                                          *)

\* Combine on generated arguments
InitCombine ==
    /\ base \in StrUpTo(MaxLen) \cup TestCombineBases
    /\ relative \in StrUpTo(MaxLen) \cup TestCombineRelatives
    /\ have = ""
    /\ combineAt = "args"
    /\ Links = NilMap
    /\ baseURL = url_Parse("")
    /\ out = <<>>
    /\ ch = "open"
    /\ wg = 0
    /\ mainAt = "idle"
    /\ rangeLinks = {}
    /\ workers = <<>>
    /\ closerAt = "idle"
    /\ ret = [returned |-> FALSE, nil |-> TRUE, kv |-> <<>>]
    /\ probed = <<>>
    /\ outSrc = <<>>
    /\ tree = <<>>
    /\ stack = <<>>
    /\ pc = newPageContents
    /\ err = ""
    /\ page = NotReturned
    /\ doctype = DoctypeNode(<<>>)
    /\ version = ""
    /\ versionAt = "idle"
    /\ runs = FirstRun
    /\ handler = IdleHandler

SpecCombine == InitCombine /\ [][CallCombine]_vars

\* InvalidLinks on a link map and a base URL, every interleaving
InitLinks ==
    /\ base = ""
    /\ relative = ""
    /\ have = ""
    /\ combineAt = "idle"
    /\ Links \in LinkMaps
    /\ baseURL \in BaseURLs
    /\ out = <<>>
    /\ ch = "open"
    /\ wg = 0
    /\ mainAt = "range"
    /\ rangeLinks = DOMAIN Links.kv
    /\ workers = [d \in DOMAIN Links.kv |-> IdleWorker]
    /\ closerAt = "idle"
    /\ ret = [returned |-> FALSE, nil |-> TRUE, kv |-> <<>>]
    /\ probed = [d \in DOMAIN Links.kv |-> <<>>]
    /\ outSrc = <<>>
    /\ tree = <<>>
    /\ stack = <<>>
    /\ pc = newPageContents
    /\ err = ""
    /\ page = NotReturned
    /\ doctype = DoctypeNode(<<>>)
    /\ version = ""
    /\ versionAt = "idle"
    /\ runs = FirstRun
    /\ handler = IdleHandler

SpecLinks == InitLinks /\ [][InvalidLinks]_vars

\* InvalidLinks when a goroutine that can run does run in the end and
\* every http.Get returns: a step is taken whenever one is possible
InitLinksFair ==
    /\ base = ""
    /\ relative = ""
    /\ have = ""
    /\ combineAt = "idle"
    /\ Links \in LinkMapsUpTo(MaxFairLinks)
    /\ baseURL = url_Parse("http://a.com/")
    /\ out = <<>>
    /\ ch = "open"
    /\ wg = 0
    /\ mainAt = "range"
    /\ rangeLinks = DOMAIN Links.kv
    /\ workers = [d \in DOMAIN Links.kv |-> IdleWorker]
    /\ closerAt = "idle"
    /\ ret = [returned |-> FALSE, nil |-> TRUE, kv |-> <<>>]
    /\ probed = [d \in DOMAIN Links.kv |-> <<>>]
    /\ outSrc = <<>>
    /\ tree = <<>>
    /\ stack = <<>>
    /\ pc = newPageContents
    /\ err = ""
    /\ page = NotReturned
    /\ doctype = DoctypeNode(<<>>)
    /\ version = ""
    /\ versionAt = "idle"
    /\ runs = FirstRun
    /\ handler = IdleHandler

SpecLinksFair == InitLinksFair /\ [][InvalidLinks]_vars /\ WF_vars(InvalidLinks)

\* Page on a parsed tree: pc := newPageContents(); pc.traversePage(root)
InitPage ==
    /\ base = ""
    /\ relative = ""
    /\ have = ""
    /\ combineAt = "idle"
    /\ Links = NilMap
    /\ baseURL = url_Parse("")
    /\ out = <<>>
    /\ ch = "open"
    /\ wg = 0
    /\ mainAt = "idle"
    /\ rangeLinks = {}
    /\ workers = <<>>
    /\ closerAt = "idle"
    /\ ret = [returned |-> FALSE, nil |-> TRUE, kv |-> <<>>]
    /\ probed = <<>>
    /\ outSrc = <<>>
    /\ tree \in PageTrees(MaxNodes)
    /\ stack = <<Frame(1)>>
    /\ pc = newPageContents
    /\ err = ""
    /\ page = NotReturned
    /\ doctype = DoctypeNode(<<>>)
    /\ version = ""
    /\ versionAt = "idle"
    /\ runs = FirstRun
    /\ handler = IdleHandler

SpecPage == InitPage /\ [][Page]_vars

\* Page on trees of headings, of links, of forms and inputs
InitTraverse ==
    /\ base = ""
    /\ relative = ""
    /\ have = ""
    /\ combineAt = "idle"
    /\ Links = NilMap
    /\ baseURL = url_Parse("")
    /\ out = <<>>
    /\ ch = "open"
    /\ wg = 0
    /\ mainAt = "idle"
    /\ rangeLinks = {}
    /\ workers = <<>>
    /\ closerAt = "idle"
    /\ ret = [returned |-> FALSE, nil |-> TRUE, kv |-> <<>>]
    /\ probed = <<>>
    /\ outSrc = <<>>
    /\ tree \in ElementTrees(MaxElems)
    /\ stack = <<Frame(1)>>
    /\ pc = newPageContents
    /\ err = ""
    /\ page = NotReturned
    /\ doctype = DoctypeNode(<<>>)
    /\ version = ""
    /\ versionAt = "idle"
    /\ runs = FirstRun
    /\ handler = IdleHandler

SpecTraverse == InitTraverse /\ [][Page]_vars

\* Page on trees of headings and links, some of which do not parse
InitFailing ==
    /\ base = ""
    /\ relative = ""
    /\ have = ""
    /\ combineAt = "idle"
    /\ Links = NilMap
    /\ baseURL = url_Parse("")
    /\ out = <<>>
    /\ ch = "open"
    /\ wg = 0
    /\ mainAt = "idle"
    /\ rangeLinks = {}
    /\ workers = <<>>
    /\ closerAt = "idle"
    /\ ret = [returned |-> FALSE, nil |-> TRUE, kv |-> <<>>]
    /\ probed = <<>>
    /\ outSrc = <<>>
    /\ tree \in FailingTrees(MaxElems)
    /\ stack = <<Frame(1)>>
    /\ pc = newPageContents
    /\ err = ""
    /\ page = NotReturned
    /\ doctype = DoctypeNode(<<>>)
    /\ version = ""
    /\ versionAt = "idle"
    /\ runs = FirstRun
    /\ handler = IdleHandler

SpecFailing == InitFailing /\ [][Page]_vars

\* Page called twice on one tree
InitTwice ==
    /\ base = ""
    /\ relative = ""
    /\ have = ""
    /\ combineAt = "idle"
    /\ Links = NilMap
    /\ baseURL = url_Parse("")
    /\ out = <<>>
    /\ ch = "open"
    /\ wg = 0
    /\ mainAt = "idle"
    /\ rangeLinks = {}
    /\ workers = <<>>
    /\ closerAt = "idle"
    /\ ret = [returned |-> FALSE, nil |-> TRUE, kv |-> <<>>]
    /\ probed = <<>>
    /\ outSrc = <<>>
    /\ tree \in ElementTrees(MaxRunNodes) \cup PageTrees(MaxRunNodes)
    /\ stack = <<Frame(1)>>
    /\ pc = newPageContents
    /\ err = ""
    /\ page = NotReturned
    /\ doctype = DoctypeNode(<<>>)
    /\ version = ""
    /\ versionAt = "idle"
    /\ runs = FirstRun
    /\ handler = IdleHandler

SpecTwice == InitTwice /\ [][PageTwice]_vars

\* a request to the handler: every content type with every body
InitHandler ==
    /\ base = ""
    /\ relative = ""
    /\ have = ""
    /\ combineAt = "idle"
    /\ Links = NilMap
    /\ baseURL = url_Parse("")
    /\ out = <<>>
    /\ ch = "open"
    /\ wg = 0
    /\ mainAt = "idle"
    /\ rangeLinks = {}
    /\ workers = <<>>
    /\ closerAt = "idle"
    /\ ret = [returned |-> FALSE, nil |-> TRUE, kv |-> <<>>]
    /\ probed = <<>>
    /\ outSrc = <<>>
    /\ tree = <<>>
    /\ stack = <<>>
    /\ pc = newPageContents
    /\ err = ""
    /\ page = NotReturned
    /\ doctype = DoctypeNode(<<>>)
    /\ version = ""
    /\ versionAt = "idle"
    /\ runs = FirstRun
    /\ handler \in {NewRequest(contentType, body) : contentType \in ContentTypes, body \in Bodies}

\* the handler serves the request, InvalidLinks running inside it
SpecHandler == InitHandler /\ [][parseHtml]_vars

\* extractVersion on a doctype node with generated attributes
InitVersion ==
    /\ base = ""
    /\ relative = ""
    /\ have = ""
    /\ combineAt = "idle"
    /\ Links = NilMap
    /\ baseURL = url_Parse("")
    /\ out = <<>>
    /\ ch = "open"
    /\ wg = 0
    /\ mainAt = "idle"
    /\ rangeLinks = {}
    /\ workers = <<>>
    /\ closerAt = "idle"
    /\ ret = [returned |-> FALSE, nil |-> TRUE, kv |-> <<>>]
    /\ probed = <<>>
    /\ outSrc = <<>>
    /\ tree = <<>>
    /\ stack = <<>>
    /\ pc = newPageContents
    /\ err = ""
    /\ page = NotReturned
    /\ doctype \in {DoctypeNode(Attr) : Attr \in AttrsUpTo(MaxAttrs)}
    /\ version = ""
    /\ versionAt = "node"
    /\ runs = FirstRun
    /\ handler = IdleHandler

SpecVersion == InitVersion /\ [][CallExtractVersion]_vars

----------------------------------------------------------------------------
(* Properties of Combine                                                   *)

\* the last byte taken from base and the first byte of relative are both "/"
DoubledSlashAtJoin ==
    LET j == Len(have) - Len(relative)
    IN  /\ j >= 1
        /\ Len(relative) >= 1
        /\ CharAt(have, j) = "/"
        /\ CharAt(have, j + 1) = "/"

\* base ends with "/" and relative starts with "/"
BothSlashes == CharAt(relative, 1) = "/" /\ Len(base) >= 1 /\ CharAt(base, Len(base)) = "/"

\* what the claim says the result is
CombineExpected ==
    IF Len(relative) >= 1 /\ BothSlashes
    THEN SubSeq(base, 1, Len(base) - 1) \o relative
    ELSE base \o relative

\* C6 as stated: the result is base minus its last character followed by
\* relative when relative starts with "/" and base ends with "/", base
\* followed by relative otherwise; the result never has a doubled slash at
\* the join; its length is len(base)+len(relative)-1 exactly in the first case.
C6_AsStated ==
    combineAt = "done" =>
        /\ have = CombineExpected
        /\ ~DoubledSlashAtJoin
        /\ (Len(have) = Len(base) + Len(relative) - 1
              <=> (Len(relative) >= 1 /\ BothSlashes))

\* C6 amended: the same result and length; a doubled slash is left at the
\* join exactly when relative starts with "/" and base ends with "//" (only
\* one trailing slash of base is dropped).
C6_Combine ==
    combineAt = "done" =>
        /\ have = CombineExpected
        /\ (DoubledSlashAtJoin
              <=> (Len(relative) >= 1 /\ CharAt(relative, 1) = "/" /\ HasSuffix(base, "//")))
        /\ (Len(have) = Len(base) + Len(relative) - 1
              <=> (Len(relative) >= 1 /\ BothSlashes))

\* TestCombine/ok-3: the trailing slash of base is dropped
C6_Witness ==
    /\ combineAt = "done"
    /\ base = "www.google.com/"
    /\ relative = "/some/path/"
    /\ have = "www.google.com/some/path/"

----------------------------------------------------------------------------
(* Properties of InvalidLinks                                              *)

\* a probe fails: the request returned an error or the status is 500..599
Failing(resp) == resp.err # "" \/ resp.StatusCode \in 500..599

\* the probes made so far, as <<group, position in the group's history>>
Probes == UNION {{<<d, i>> : i \in 1..Len(probed[d])} : d \in DOMAIN probed}

FailingProbes == {pr \in Probes : Failing(probed[pr[1]][pr[2]].resp)}

\* the entries of the returned mapping, as <<key, position in the key's list>>
Returned == UNION {{<<k, j>> : j \in 1..Len(ret.kv[k])} : k \in DOMAIN ret.kv}

\* the group and href an entry of the returned mapping was sent for
Src(e) == outSrc[e[1]][e[2]]

\* the probe an entry of the returned mapping was sent for
ProbeOf(e) ==
    LET g == Src(e).group
    IN  probed[g][CHOOSE i \in 1..Len(probed[g]) : probed[g][i].href = Src(e).href]

\* the history of origins lines up with the returned mapping
SrcAligned ==
    /\ DOMAIN outSrc = DOMAIN ret.kv
    /\ \A k \in DOMAIN ret.kv : Len(outSrc[k]) = Len(ret.kv[k])

\* the probe of href h by the worker of group d is reported in the result
Reported(d, h) ==
    \E e \in Returned : Src(e) = [group |-> d, href |-> h]

\* C1: when InvalidLinks returns, the returned mapping holds in total, over
\* all its keys, exactly one InvalidLink per failing probe, whatever the
\* interleaving of the workers and the coordinator.
C1_OnePerFailingProbe ==
    ret.returned => Cardinality(Returned) = Cardinality(FailingProbes)

\* two groups, several failing probes under one key and a probe that succeeds
C1_Witness ==
    /\ ret.returned
    /\ Cardinality(DOMAIN probed) >= 2
    /\ \E k \in DOMAIN ret.kv : Len(ret.kv[k]) >= 2
    /\ Cardinality(FailingProbes) < Cardinality(Probes)

\* C2: a probed link is reported as an InvalidLink if and only if its GET
\* returned an error or a status code in 500..599; any other status code,
\* every 4xx included, yields no InvalidLink for it.
C2_InvalidIffErrorOr5xx ==
    ret.returned =>
        /\ SrcAligned
        /\ \A pr \in Probes :
             LET r == probed[pr[1]][pr[2]]
             IN  Reported(pr[1], r.href) <=> Failing(r.resp)

\* a 404, a 599 and a failed request in one run: only the last two are reported
C2_Witness ==
    /\ ret.returned
    /\ \E pr \in Probes : LET r == probed[pr[1]][pr[2]]
                          IN  r.resp.StatusCode = 404 /\ ~Reported(pr[1], r.href)
    /\ \E pr \in Probes : LET r == probed[pr[1]][pr[2]]
                          IN  r.resp.StatusCode = 599 /\ Reported(pr[1], r.href)
    /\ \E pr \in Probes : LET r == probed[pr[1]][pr[2]]
                          IN  r.resp.err # "" /\ Reported(pr[1], r.href)

\* C3 as stated: for a status N in 500..599 the reason is "server responded
\* with status N"; for a request error it is the error's description.
C3_AsStated ==
    ret.returned =>
        \A e \in Returned :
            LET resp == ProbeOf(e).resp
            IN  ret.kv[e[1]][e[2]].Reason =
                    IF resp.err # "" THEN resp.err
                    ELSE "server responded with status " \o ToString(resp.StatusCode)

\* C3 amended: for a status N in 500..599 the reason is "endpoint responded
\* with code: N"; for a request error it is the error's description.
C3_Reason ==
    ret.returned =>
        /\ SrcAligned
        /\ \A e \in Returned :
             LET resp == ProbeOf(e).resp
             IN  ret.kv[e[1]][e[2]].Reason =
                     IF resp.err # "" THEN resp.err
                     ELSE "endpoint responded with code: " \o ToString(resp.StatusCode)

\* a 500 and a failed request, each reported with its own reason
C3_Witness ==
    /\ ret.returned
    /\ \E e \in Returned :
         /\ ProbeOf(e).resp.StatusCode = 500
         /\ ret.kv[e[1]][e[2]].Reason = "endpoint responded with code: 500"
    /\ \E e \in Returned :
         /\ ProbeOf(e).resp.err # ""
         /\ ret.kv[e[1]][e[2]].Reason = "Get \"http://a.com/x\": dial tcp: no such host"

\* C4: an InvalidLink of the "" group is returned under baseURL.Hostname()
\* with url Combine(baseURL.String(), href), the address probed; an
\* InvalidLink of any other group is returned under the group's key with
\* the href as its url.
C4_KeyAndURL ==
    ret.returned =>
        /\ SrcAligned
        /\ \A e \in Returned :
             LET l == ret.kv[e[1]][e[2]]
             IN  IF Src(e).group = ""
                 THEN /\ e[1] = Hostname(baseURL)
                      /\ l.URL = Combine(String(baseURL), Src(e).href)
                      /\ l.URL = ProbeOf(e).link
                 ELSE /\ e[1] = Src(e).group
                      /\ l.URL = Src(e).href
                      /\ l.URL = ProbeOf(e).link

\* the "" group and the group of the base URL's hostname both report under
\* that hostname; the relative href is reported as the address probed
C4_Witness ==
    /\ ret.returned
    /\ String(baseURL) = "http://a.com/"
    /\ \E e \in Returned :
         /\ Src(e) = [group |-> "", href |-> "/p"]
         /\ e[1] = "a.com"
         /\ ret.kv[e[1]][e[2]].URL = "http://a.com/p"
    /\ \E e \in Returned :
         /\ Src(e).group = "a.com"
         /\ e[1] = "a.com"
         /\ ret.kv[e[1]][e[2]].URL = "http://a.com/x"

\* C5: InvalidLinks fails in no way (no worker is left sending on the closed
\* channel) and returns a non-nil mapping that has a key only for a hostname
\* with at least one invalid link; the mapping is empty when no probe fails,
\* and when the link map is empty or nil.
C5_NonNilNoEmptyKey ==
    /\ \A d \in DOMAIN workers :
         ch = "closed" => workers[d].at \notin {"sendErr", "sendStatus"}
    /\ ret.returned =>
         /\ ~ret.nil
         /\ \A k \in DOMAIN ret.kv : Len(ret.kv[k]) >= 1
         /\ FailingProbes = {} => DOMAIN ret.kv = {}
         /\ DOMAIN Links.kv = {} => DOMAIN ret.kv = {}

\* every link was probed and none failed: the empty, non-nil mapping
C5_Witness ==
    /\ ret.returned
    /\ Cardinality(Probes) >= 2
    /\ FailingProbes = {}
    /\ ~ret.nil
    /\ DOMAIN ret.kv = {}

----------------------------------------------------------------------------
(* Properties of Page                                                      *)

\* node i is an <a> element with an href that url.Parse rejects
BadHref(t, i) ==
    /\ t[i].Type = "Element"
    /\ ToLower(t[i].Data) = "a"
    /\ \E k \in 1..Len(t[i].Attr) :
         ToLower(t[i].Attr[k].Key) = "href" /\ url_Parse(t[i].Attr[k].Val).err # ""

\* Page has returned a PageContents and no error
Succeeded == page.returned /\ page.err = ""

\* C7: when some <a> element of the tree has an href that cannot be parsed
\* as a URL, Page returns a non-nil error and a nil PageContents, whatever
\* the traversal had accumulated before the failing node
C7_NilOnBadHref ==
    (page.returned /\ \E i \in 1..Len(tree) : BadHref(tree, i)) =>
        /\ page.err # ""
        /\ page.nil
        /\ page.pc = newPageContents

\* Page has returned the error of a bad href met after a doctype, a title
\* and a parsable link had been accumulated
C7_Witness ==
    /\ page.returned
    /\ page.err # ""
    /\ page.nil
    /\ \E i \in 1..Len(tree) : BadHref(tree, i)
    /\ pc.Version # ""
    /\ pc.Title # ""
    /\ pc.Links # <<>>

HasDoctype(t) == \E i \in 1..Len(t) : t[i].Type = "Doctype"

\* C8: after a successful traversal Version is "" exactly when the tree has
\* no doctype node, it is "5" when the doctype node has no attributes, and
\* it is always one of the seven versions or ""
C8_Version ==
    Succeeded =>
        /\ page.pc.Version = "" <=> ~HasDoctype(tree)
        /\ \A i \in 1..Len(tree) :
             (tree[i].Type = "Doctype" /\ Len(tree[i].Attr) = 0) =>
                 page.pc.Version = Version5
        /\ page.pc.Version \in {Version5, Version4_01, Version4_0, Version3_2,
                                Version3_0, Version2_0, LessThan2_0, ""}

\* a successful traversal of a tree whose doctype node has no attributes
C8_Witness ==
    /\ Succeeded
    /\ \E i \in 1..Len(tree) : tree[i].Type = "Doctype" /\ Len(tree[i].Attr) = 0
    /\ page.pc.Version = Version5
    /\ Len(tree) > 2

\* the <title> elements of the tree that have a child, by document order
TitlesWithChild(t) ==
    {i \in 1..Len(t) :
        t[i].Type = "Element" /\ ToLower(t[i].Data) = "title" /\ Children(t, i) # {}}

\* C10: after a successful traversal Title is the data of the first child of
\* the first <title> element in document order - read as the first one that
\* has a child to take the title from - and "" when there is none: a later
\* <title> never changes it
C10_AsStated ==
    Succeeded =>
        page.pc.Title =
            IF TitlesWithChild(tree) = {} THEN ""
            ELSE LET first == CHOOSE i \in TitlesWithChild(tree) :
                                 \A j \in TitlesWithChild(tree) : i <= j
                     child == CHOOSE c \in Children(tree, first) :
                                 \A d \in Children(tree, first) : c <= d
                 IN  tree[child].Data

----------------------------------------------------------------------------
(* Properties of extractVersion                                            *)

\* s holds sub as a substring, letters compared in either case
ContainsFold(s, sub) ==
    \E i \in 1..(Len(s) - Len(sub) + 1) :
        ToLower(SubSeq(s, i, i + Len(sub) - 1)) = ToLower(sub)

\* some attribute value of the node holds " HTML <v>"
SomeAttrHolds(Attr, v) ==
    \E k \in 1..Len(Attr) : ContainsFold(Attr[k].Val, " HTML " \o v)

\* the first version of the priority order that some attribute value holds
PriorityVersion(Attr) ==
    IF SomeAttrHolds(Attr, Version4_01) THEN Version4_01
    ELSE IF SomeAttrHolds(Attr, Version4_0) THEN Version4_0
    ELSE IF SomeAttrHolds(Attr, Version3_2) THEN Version3_2
    ELSE IF SomeAttrHolds(Attr, Version3_0) THEN Version3_0
    ELSE IF SomeAttrHolds(Attr, Version2_0) THEN Version2_0
    ELSE LessThan2_0

\* C9: for a doctype node with one or more attributes the version is the
\* first of 4.01, 4.0, 3.2, 3.0, 2.0 whose pattern " HTML <version>" is a
\* case-insensitive substring of some attribute value, whatever the position
\* of that attribute, and "<2.0" when no pattern is in any attribute value
C9_AsStated ==
    (versionAt = "done" /\ Len(doctype.Attr) >= 1) =>
        version = PriorityVersion(doctype.Attr)

----------------------------------------------------------------------------
(* Properties of the headings, links and login form                        *)

HeadingTags == {"h1", "h2", "h3", "h4", "h5", "h6"}

\* the sum of the values of a Headings map
RECURSIVE SumOf(_, _)
SumOf(h, keys) ==
    IF keys = {} THEN 0
    ELSE LET k == CHOOSE x \in keys : TRUE
         IN  h[k] + SumOf(h, keys \ {k})

\* the element nodes with a heading tag, in either case
HeadingNodes(t) ==
    {i \in 1..Len(t) : t[i].Type = "Element" /\ ToLower(t[i].Data) \in HeadingTags}

Hrefs(t) ==
    UNION {{[host |-> Hostname(url_Parse(t[i].Attr[k].Val)), href |-> t[i].Attr[k].Val] :
              k \in {j \in 1..Len(t[i].Attr) : ToLower(t[i].Attr[j].Key) = "href"}} :
           i \in {j \in 1..Len(t) : t[j].Type = "Element" /\ ToLower(t[j].Data) = "a"}}

\* C12: after a successful traversal Links[k] is, for every key k, the set of
\* the raw hrefs of the <a> elements whose parsed hostname is k ("" for an
\* href without a hostname): a repeated href is stored once, hrefs one
\* character apart are two entries, and no key maps to an empty set
C12_LinksByHostname ==
    Succeeded =>
        /\ DOMAIN page.pc.Links = {h.host : h \in Hrefs(tree)}
        /\ \A k \in DOMAIN page.pc.Links :
             /\ page.pc.Links[k] = {h.href : h \in {x \in Hrefs(tree) : x.host = k}}
             /\ page.pc.Links[k] # {}

\* a successful traversal of a tree with "/p" twice and "/q" once
C12_Witness ==
    /\ Succeeded
    /\ \E i, j \in 1..Len(tree) :
         /\ i < j
         /\ tree[i] = tree[j]
         /\ tree[i].Data = "a"
         /\ tree[i].Attr[1].Val = "/p"
    /\ "" \in DOMAIN page.pc.Links
    /\ page.pc.Links[""] = {"/p", "/q"}

\* node i has an ancestor, at any depth, whose tag is "form" in either case
RECURSIVE HasFormAncestor(_, _)
HasFormAncestor(t, i) ==
    \E j \in 1..Len(t) :
        /\ j = t[i].Parent
        /\ \/ ToLower(t[j].Data) = "form"
           \/ HasFormAncestor(t, j)

\* the <input> elements with a type attribute equal to "password", tag,
\* key and value in either case
PasswordInputs(t) ==
    {i \in 1..Len(t) :
        /\ t[i].Type = "Element"
        /\ ToLower(t[i].Data) = "input"
        /\ \E k \in 1..Len(t[i].Attr) :
             ToLower(t[i].Attr[k].Key) = "type" /\ ToLower(t[i].Attr[k].Val) = "password"}

\* C13: after a successful traversal LoginForm is true exactly when the tree
\* has a password <input> with a <form> ancestor at any depth; and once the
\* flag is true during the traversal no step sets it back to false
C13_LoginForm ==
    /\ [](Succeeded =>
            (page.pc.LoginForm <=>
                \E i \in PasswordInputs(tree) : HasFormAncestor(tree, i)))
    /\ [][pc.LoginForm => pc'.LoginForm]_vars

\* a successful traversal that found a password <input> whose <form>
\* ancestor is not its parent
C13_Witness ==
    /\ Succeeded
    /\ page.pc.LoginForm
    /\ \E i \in PasswordInputs(tree) :
         /\ HasFormAncestor(tree, i)
         /\ ToLower(tree[tree[i].Parent].Data) # "form"

----------------------------------------------------------------------------
(* Properties of the order, the channel and the workers of InvalidLinks    *)

\* the addresses of a list of InvalidLinks, in the list's order
URLsOf(list) == [j \in 1..Len(list) |-> list[j].URL]

\* the addresses the worker of group d found invalid, in the order of its probes
FailedLinks(d) ==
    LET failed == SelectSeq(probed[d], LAMBDA r : Failing(r.resp))
    IN  [i \in 1..Len(failed) |-> failed[i].link]

\* the addresses the worker of group d probed
LinksOf(d) == {probed[d][i].link : i \in 1..Len(probed[d])}

\* the key the worker of group d reports under
KeyOf(d) == IF d = "" THEN Hostname(baseURL) ELSE d

\* C14 as stated: the list of every key of the returned mapping is the list
\* of the invalid links of one worker, in the order that worker completed
\* its probes, also when the link map has a "" group and a group keyed by
\* the base URL's hostname
C14_AsStated ==
    ret.returned =>
        \A k \in DOMAIN ret.kv :
            \E d \in DOMAIN probed : URLsOf(ret.kv[k]) = FailedLinks(d)

\* C14 amended: in the list of every key, the entries of one worker are in
\* the order that worker completed its probes, and every entry is of a
\* worker that reports under the key: the key's own group, and the "" group
\* for the base URL's hostname, whose list interleaves the two workers
C14_PerWorkerOrder ==
    ret.returned =>
        \A k \in DOMAIN ret.kv :
            /\ \A d \in {g \in DOMAIN probed : KeyOf(g) = k} :
                 SelectSeq(URLsOf(ret.kv[k]), LAMBDA u : u \in LinksOf(d)) = FailedLinks(d)
            /\ \A j \in 1..Len(ret.kv[k]) :
                 \E d \in {g \in DOMAIN probed : KeyOf(g) = k} :
                     ret.kv[k][j].URL \in LinksOf(d)

\* the list of the base URL's hostname holds an invalid link of its own
\* group between two invalid links of the "" group
C14_Witness ==
    /\ ret.returned
    /\ Hostname(baseURL) = "a.com"
    /\ "a.com" \in DOMAIN ret.kv
    /\ Len(ret.kv["a.com"]) = 3
    /\ ret.kv["a.com"][1].URL \in LinksOf("")
    /\ ret.kv["a.com"][2].URL \in LinksOf("a.com")
    /\ ret.kv["a.com"][3].URL \in LinksOf("")

----------------------------------------------------------------------------
(* Properties of two calls of Page                                         *)

\* C17: two calls of Page on the same tree, each with its own new
\* PageContents, return equal values: the same Version, Title and LoginForm,
\* and Headings and Links equal as maps and sets; nothing of the first call
\* is left in the second
C17_SameResultTwice ==
    (runs.n = 2 /\ page.returned) =>
        /\ page.nil = runs.first.nil
        /\ page.err = runs.first.err
        /\ page.pc.Version = runs.first.pc.Version
        /\ page.pc.Title = runs.first.pc.Title
        /\ page.pc.LoginForm = runs.first.pc.LoginForm
        /\ DOMAIN page.pc.Headings = DOMAIN runs.first.pc.Headings
        /\ \A k \in DOMAIN page.pc.Headings :
             page.pc.Headings[k] = runs.first.pc.Headings[k]
        /\ DOMAIN page.pc.Links = DOMAIN runs.first.pc.Links
        /\ \A k \in DOMAIN page.pc.Links : page.pc.Links[k] = runs.first.pc.Links[k]

\* the second call has returned for a tree with two <h1> elements
C17_Witness ==
    /\ runs.n = 2
    /\ page.returned
    /\ page.err = ""
    /\ "h1" \in DOMAIN page.pc.Headings
    /\ page.pc.Headings["h1"] = 2
    /\ runs.first.pc.Headings["h1"] = 2

\* every worker was started and has returned, its wg.Done() included
AllWorkersDone ==
    /\ rangeLinks = {}
    /\ wg = 0
    /\ \A d \in DOMAIN workers : workers[d].at = "done"

\* the number of values received and appended to out
Received == UNION {{<<k, j>> : j \in 1..Len(out[k])} : k \in DOMAIN out}

\* C18: the result channel is closed once, and only after every worker has
\* signalled completion on the wait group; no worker sends on it after it is
\* closed; InvalidLinks returns only after the channel is closed and every
\* value sent has been received and appended to the result
C18_CloseAfterWorkers ==
    /\ [][(ch = "open" /\ ch' = "closed") => AllWorkersDone]_vars
    /\ [][ch = "closed" => (ch' = "closed" /\ closerAt' = "done")]_vars
    /\ [](closerAt = "close" => ch = "open")
    /\ [](ch = "closed" =>
            \A d \in DOMAIN workers : workers[d].at \notin {"sendErr", "sendStatus"})
    /\ [](ret.returned =>
            /\ ch = "closed"
            /\ AllWorkersDone
            /\ ret.kv = out
            /\ Cardinality(Received) = Cardinality(FailingProbes))

\* the channel is closed after two workers sent three values, and the
\* coordinator has not returned yet
C18_Witness ==
    /\ ch = "closed"
    /\ ~ret.returned
    /\ Cardinality(DOMAIN workers) >= 2
    /\ AllWorkersDone
    /\ Cardinality(Received) = 3

\* C19: when every probe returns and the goroutines are scheduled fairly,
\* InvalidLinks returns in the end, for every link map, the empty one
\* included: no worker is blocked for ever on the channel, the closer closes
\* it, and the goroutines never all block (a behaviour that stops before the
\* return is one that never returns)
C19_EventuallyReturns == <>ret.returned

\* two workers are blocked on their sends while the coordinator has not
\* started to receive
C19_Witness ==
    /\ mainAt = "range"
    /\ Cardinality({d \in DOMAIN workers : workers[d].at \in {"sendErr", "sendStatus"}}) >= 2

\* the failing probe of href h by the worker of group d has been received
HandedOver(d, h) ==
    \E k \in DOMAIN outSrc :
        \E j \in 1..Len(outSrc[k]) : outSrc[k][j] = [group |-> d, href |-> h]

\* the workers with a probe in flight
InFlight == {d \in DOMAIN workers : workers[d].at = "get"}

\* C20: one worker per key of the link map, each probing the hrefs of its
\* own group one at a time: at most one probe per group is in flight, a
\* worker starts a probe only after its previous probe has returned and its
\* result, if invalid, has been received by the coordinator, and no worker
\* probes an href of another group
C20_OneWorkerPerGroup ==
    /\ DOMAIN workers = DOMAIN Links.kv
    /\ wg = Cardinality({d \in DOMAIN workers : workers[d].at \notin {"idle", "done"}})
    /\ mainAt # "range" => \A d \in DOMAIN workers : workers[d].at # "idle"
    /\ \A g \in DOMAIN Links.kv :
         /\ Cardinality({d \in InFlight : workers[d].href \in Links.kv[g]}) <= 1
         /\ \A d \in InFlight : workers[d].href \in Links.kv[g] => d = g
    /\ \A d \in DOMAIN probed :
         \A i \in 1..Len(probed[d]) : probed[d][i].href \in Links.kv[d]
    /\ \A d \in InFlight :
         \A i \in 1..Len(probed[d]) :
             Failing(probed[d][i].resp) => HandedOver(d, probed[d][i].href)

\* two workers have a probe in flight at once, one of them after an invalid
\* link of its group was received
C20_Witness ==
    /\ Cardinality(InFlight) >= 2
    /\ \E d \in InFlight :
         /\ Len(probed[d]) >= 1
         /\ Failing(probed[d][1].resp)
         /\ HandedOver(d, probed[d][1].href)

\* the first node in pre-order with an href that url.Parse rejects, 0 if none
FirstBad(t) == First({i \in 1..Len(t) : BadHref(t, i)})

\* the nodes that precede the first failing node in pre-order
Preceding(t) == SubSeq(t, 1, FirstBad(t) - 1)

\* the first attribute of node i that is an href url.Parse rejects
BadAttr(t, i) ==
    First({k \in 1..Len(t[i].Attr) :
             ToLower(t[i].Attr[k].Key) = "href" /\ url_Parse(t[i].Attr[k].Val).err # ""})

\* the hrefs of node i in the attributes before the failing one
EarlierHrefs(t, i) ==
    {[host |-> Hostname(url_Parse(t[i].Attr[k].Val)), href |-> t[i].Attr[k].Val] :
        k \in {j \in 1..BadAttr(t, i) - 1 : ToLower(t[i].Attr[j].Key) = "href"}}

\* the link groups of a set of hrefs
Grouped(H) == [d \in {h.host : h \in H} |-> {h.href : h \in {x \in H : x.host = d}}]

\* the error of the failing href of node i, as traversePage(node i) returns it
HrefError(t, i) ==
    "unable to parse URL \"" \o t[i].Attr[BadAttr(t, i)].Val \o "\": "
    \o url_Parse(t[i].Attr[BadAttr(t, i)].Val).err

\* the traversal has failed: an error is on its way up, or Page has returned
Failed == err # "" \/ page.returned

\* what holds of a failed traversal in both readings: no call of traversePage
\* was made on a node after the failing one, the failing href is in no group,
\* every field but Links is as the preceding nodes left it, and the error is
\* that of the href, wrapped once by every call that has returned it and
\* once more by Page
StoppedAt(F) ==
    /\ \A k \in 1..Len(stack) : stack[k].node <= F
    /\ Failed =>
         /\ [pc EXCEPT !.Links = <<>>] =
              [traverseFrom(newPageContents, Preceding(tree), 1).p EXCEPT !.Links = <<>>]
         /\ \A d \in DOMAIN pc.Links : tree[F].Attr[BadAttr(tree, F)].Val \notin pc.Links[d]
         /\ err # "" => err = Wrapped(HrefError(tree, F), Depth(tree, F) - Len(stack))
         /\ page.returned =>
              page.err = "inspect.Page: unexpected error: "
                         \o Wrapped(HrefError(tree, F), Depth(tree, F))

\* C22 as stated: when the traversal fails on an unparsable href, no node
\* after the failing <a> is visited, the accumulator holds exactly the
\* contributions of the nodes before it, the failing href is in no group and
\* the error reaches the outermost caller.
C22_AsStated ==
    FirstBad(tree) # 0 =>
        /\ StoppedAt(FirstBad(tree))
        /\ Failed => pc.Links = Grouped(Hrefs(Preceding(tree)))

\* C22 (amended): as stated, but the link groups hold the hrefs of the nodes
\* before the failing <a> and also the hrefs of the failing <a>'s own
\* attributes that come before the unparsable one.
C22_StopsAtFailingHref ==
    FirstBad(tree) # 0 =>
        /\ StoppedAt(FirstBad(tree))
        /\ Failed =>
             pc.Links = Grouped(Hrefs(Preceding(tree))
                                \cup EarlierHrefs(tree, FirstBad(tree)))

\* Page has returned the error of an <a> two calls deep whose first href had
\* been stored, after a heading and a link before it were accumulated, and
\* with a heading after it that was not counted
C22_Witness ==
    /\ page.returned
    /\ page.err # ""
    /\ FirstBad(tree) = 3
    /\ Depth(tree, 3) = 2
    /\ Len(tree[3].Attr) = 2
    /\ tree[2].Data = "h1"
    /\ Len(tree) = 4
    /\ tree[4].Data = "h1"
    /\ pc.Headings = [k \in {"h1"} |-> 1]
    /\ pc.Links = [d \in {""} |-> {"/q"}]

\* C21: no href is probed twice, and when InvalidLinks returns every href of
\* every group has been probed exactly once by the worker of its group,
\* whatever the probes before it gave: an error, a 5xx or a success.
C21_EveryHrefProbedOnce ==
    /\ \A d \in DOMAIN probed :
         /\ \A i, j \in 1..Len(probed[d]) : probed[d][i].href = probed[d][j].href => i = j
         /\ \A i \in 1..Len(probed[d]) : probed[d][i].href \in Links.kv[d]
    /\ ret.returned =>
         /\ DOMAIN probed = DOMAIN Links.kv
         /\ \A d \in DOMAIN Links.kv :
              /\ Len(probed[d]) = Cardinality(Links.kv[d])
              /\ {probed[d][i].href : i \in 1..Len(probed[d])} = Links.kv[d]

\* InvalidLinks has returned; in a group of two hrefs the first probe failed
\* with a request error and the second was made all the same, as were those
\* of another group
C21_Witness ==
    /\ ret.returned
    /\ \E d \in DOMAIN probed :
         /\ Len(probed[d]) = 2
         /\ probed[d][1].resp.err # ""
         /\ \E e \in DOMAIN probed \ {d} :
              /\ Len(probed[e]) >= 1
              /\ probed[e][1].resp.StatusCode \in 500..599

\* the probes that returned a response and no error
Answered == {pr \in Probes : probed[pr[1]][pr[2]].resp.err = ""}

\* the probe is the one its worker has just made and not yet dealt with
Fresh(pr) == pr[2] = Len(probed[pr[1]]) /\ workers[pr[1]].at = "close"

\* how often the body of the probe was closed
Closes(pr) ==
    Cardinality({i \in 1..Len(probed[pr[1]][pr[2]].body) :
                    probed[pr[1]][pr[2]].body[i] = "close"})

\* what holds of the bodies in both readings: a probe that returned an error
\* has no body and nothing is closed for it; the body of any other probe is
\* open only until its worker's next step, well before the worker's next
\* probe, and then closed exactly once; none is open when InvalidLinks returns
ClosedOnce ==
    /\ \A pr \in Probes \ Answered : probed[pr[1]][pr[2]].body = <<>>
    /\ \A pr \in Answered :
         IF Fresh(pr) THEN probed[pr[1]][pr[2]].body = <<"open">>
         ELSE Closes(pr) = 1 /\ Len(probed[pr[1]][pr[2]].body) = 3
    /\ \A d \in DOMAIN workers :
         workers[d].at = "get" => \A i \in 1..Len(probed[d]) : <<d, i>> \in Answered =>
                                     Closes(<<d, i>>) = 1
    /\ ret.returned => \A pr \in Answered : Closes(pr) = 1 /\ ~Fresh(pr)

\* C23 as stated: the body of every response obtained without error is closed
\* exactly once, after the status code of the response was inspected and
\* before the worker's next probe; no body is closed for a probe that
\* returned an error; none is open when InvalidLinks returns.
C23_AsStated ==
    /\ ClosedOnce
    /\ \A pr \in Answered :
         ~Fresh(pr) => probed[pr[1]][pr[2]].body = <<"open", "status", "close">>

\* C23 (amended): as stated, but the body is closed before the status code of
\* the response is inspected, not after.
C23_ClosedBeforeStatus ==
    /\ ClosedOnce
    /\ \A pr \in Answered :
         ~Fresh(pr) => probed[pr[1]][pr[2]].body = <<"open", "close", "status">>

\* InvalidLinks has returned after one worker made a probe that failed with
\* an error, one that was answered 5xx and one that was answered below 500
C23_Witness ==
    /\ ret.returned
    /\ \E d \in DOMAIN probed :
         /\ Len(probed[d]) = 2
         /\ \E i, j \in 1..2 :
              /\ probed[d][i].resp.err = ""
              /\ probed[d][i].resp.StatusCode \in 500..599
              /\ probed[d][i].body = <<"open", "close", "status">>
              /\ probed[d][j].resp.err # ""
              /\ probed[d][j].body = <<>>
    /\ \E pr \in Answered : probed[pr[1]][pr[2]].resp.StatusCode < 500

----------------------------------------------------------------------------
(* Properties of parseHtml                                                 *)

\* the handler has returned
Done == handler.at = "done"

\* the response of the first step that fails, in the order of the code, for
\* the payload p decoded from the body, its url parsed as u, and the error
\* pageErr of Page on the page fetched
FailureOf(h, p, u, pageErr) ==
    IF h.contentType # "application/json"
    THEN [step |-> "contentType", status |-> 400, err |-> "Invalid content-type"]
    ELSE IF h.readErr # ""
    THEN [step |-> "read", status |-> 500, err |-> h.readErr]
    ELSE IF p.err # ""
    THEN [step |-> "unmarshal", status |-> 500, err |-> p.err]
    ELSE IF p.URL = ""
    THEN [step |-> "emptyURL", status |-> 400, err |-> "empty URL in payload"]
    ELSE IF u.err # ""
    THEN [step |-> "parse", status |-> 400, err |-> u.err]
    ELSE IF h.fetchErr # ""
    THEN [step |-> "fetch", status |-> 500, err |-> h.fetchErr]
    ELSE IF pageErr # ""
    THEN [step |-> "extract", status |-> 400, err |-> pageErr]
    ELSE [step |-> "none", status |-> 200, err |-> ""]

FirstFailure(h) ==
    The({FailureOf(h, p, url_Parse(p.URL), IF tree = <<>> THEN "" ELSE PageOf(tree).err) :
            p \in {json_Unmarshal(h.body)}})

\* some step of the handler, or of InvalidLinks inside it, can be taken: the
\* guards of the actions of parseHtml
CanStep ==
    \/ handler.at \notin {"idle", "await", "done"}
    \/ /\ handler.at = "await"
       /\ \/ ret.returned
          \/ mainAt = "range"
          \/ \E d \in DOMAIN workers : workers[d].at \in {"start", "range", "get", "close"}
          \/ /\ \E d \in DOMAIN workers : workers[d].at \in {"sendErr", "sendStatus"}
             /\ mainAt = "recv"
             /\ ch = "open"
          \/ closerAt = "wait" /\ wg = 0
          \/ closerAt = "close"
          \/ mainAt = "recv" /\ ch = "closed"

\* the body is JSON text: an object without a key, or with the key "url" and
\* a string or a number
json_Valid(body) ==
    \/ body = "{}"
    \/ body = "{\"url\": 5}"
    \/ Len(body) >= 11 /\ HasPrefix(body, "{\"url\": \"") /\ HasSuffix(body, "\"}")

\* the url of a body that is JSON text: the string of its key "url", if any
StatedURL(body) ==
    IF Len(body) >= 11 /\ HasPrefix(body, "{\"url\": \"") /\ HasSuffix(body, "\"}")
    THEN SubSeq(body, 10, Len(body) - 2)
    ELSE ""

Consumed == handler.at = "external" \/ (Done /\ handler.responses[1].status = 200)

\* the link map Page extracted from the page fetched, before any deletion
Extracted == PageOf(tree).pc.Links

\* the hrefs of the page fetched
ExtractedHrefs == UNION {Extracted[d] : d \in DOMAIN Extracted}

\* the entries of the list of hrefs that are s
Occurrences(list, s) == {i \in 1..Len(list) : list[i] = s}

\* the internal links of the response, none when internal is nil
InternalLinks == IF handler.out.Internal.nil THEN <<>> ELSE handler.out.Internal.Links

\* the set S listed once each: the list is a permutation of S
ListsOnce(list, S) ==
    /\ Len(list) = Cardinality(S)
    /\ {list[i] : i \in 1..Len(list)} = S

\* the list has, for every relative href of rel, one entry with its absolute
\* address, for every other href of abs one entry with the href, and no more
OnePerHref(list, u, rel, abs) ==
    \A s \in {list[i] : i \in 1..Len(list)} \cup abs \cup {Combine(String(u), h) : h \in rel} :
        Cardinality(Occurrences(list, s)) =
            Cardinality({h \in rel : Combine(String(u), h) = s})
            + Cardinality({h \in abs \ rel : h = s})

\* C16 as stated: consumeInternalLinks leaves exactly the groups other than ""
\* and u.Hostname(), unchanged; its list has one entry per href of the two
\* groups, the absolute address for a relative href and the href itself for
\* one of the page's hostname; with the external entries, one per group left
\* and each href of the group once, every extracted href is reported exactly
\* once, and no external entry has the domain "" or the page's own.
C16_AsStated ==
    Consumed =>
        /\ DOMAIN Links.kv = DOMAIN Extracted \ {"", Hostname(handler.u)}
        /\ \A d \in DOMAIN Links.kv : Links.kv[d] = Extracted[d]
        /\ OnePerHref(InternalLinks, handler.u, Group(Extracted, ""),
                      Group(Extracted, Hostname(handler.u)))
        /\ Done =>
             /\ ListsOnce([e \in 1..Len(handler.out.External) |->
                             handler.out.External[e].Domain],
                          DOMAIN Extracted \ {"", Hostname(handler.u)})
             /\ \A e \in 1..Len(handler.out.External) :
                  ListsOnce(handler.out.External[e].Links,
                            Extracted[handler.out.External[e].Domain])

\* InvalidLinks is reading the link map: its loop over p.Links is not over,
\* or a worker is in the loop over the hrefs of its group
Reading ==
    \/ mainAt = "range"
    \/ \E d \in DOMAIN workers : workers[d].at \notin {"idle", "done"}

\* the handler is in consumeInternalLinks, or past it
Deleting == handler.at = "consume" \/ Consumed

\* the hrefs of group d that were probed
ProbedOf(d) == {probed[d][i].href : i \in 1..Len(probed[d])}

\* C24: InvalidLinks runs only while the handler waits for it; when the
\* handler comes to consumeInternalLinks the link map is still the complete
\* one Page extracted, InvalidLinks has returned, every worker has ended its
\* loop and every href of every group - the relative ones and those of the
\* page's own hostname included - has been probed; so in no state does
\* InvalidLinks read the link map while the handler deletes from it.
C24_CheckBeforeConsume ==
    /\ mainAt \in {"range", "recv"} => handler.at = "await"
    /\ handler.at = "await" => DOMAIN workers = DOMAIN Links.kv
    /\ Deleting =>
         /\ ret.returned
         /\ mainAt = "returned"
         /\ \A d \in DOMAIN workers : workers[d].at = "done" /\ workers[d].links = {}
    /\ handler.at = "consume" =>
         /\ Links.kv = Extracted
         /\ DOMAIN probed = DOMAIN Links.kv
         /\ \A d \in DOMAIN Links.kv : ProbedOf(d) = Links.kv[d]
    /\ ~(Deleting /\ Reading)

\* the handler has answered 200 for a page of a.com with a relative link and
\* one of its own hostname: both were probed and failed, both are listed
\* under a.com in inaccessible, and both groups are gone from the link map
C24_Witness ==
    /\ Done
    /\ Hostname(handler.u) = "a.com"
    /\ Len(handler.responses) = 1
    /\ handler.responses[1].status = 200
    /\ DOMAIN Extracted = {"", "a.com"}
    /\ DOMAIN Links.kv = {}
    /\ Len(probed[""]) >= 1
    /\ Len(probed["a.com"]) = 1
    /\ Len(handler.out.Inaccessible) = 1
    /\ handler.out.Inaccessible[1].Domain = "a.com"
    /\ handler.out.Inaccessible[1].Total = Len(probed[""]) + 1
    /\ ~handler.out.Internal.nil

====
